---- MODULE Spec2Model ----
(***************************************************************************)
(* MetricMonitor: the flow analyzer (unnamed/part_002), the KPI            *)
(* calculators (unnamed/part_003, two listings) and the server pipeline    *)
(* (server/storage.ts: MemStorage, the routes and calculateKPIs).          *)
(*                                                                         *)
(* Representation.  A JSON object is a function from field names (strings) *)
(* to values; an optional field that is absent is a name outside DOMAIN.   *)
(* A JSON array is a sequence.  A JavaScript string is a sequence of       *)
(* one-character strings, so that includes(), trim() and split() are       *)
(* computed and not looked up.  A JavaScript number that is a quotient is  *)
(* an exact rational [n |-> numerator, d |-> denominator], d > 0: IEEE     *)
(* rounding is not modelled.                                               *)
(***************************************************************************)
EXTENDS Integers, Sequences, FiniteSets, TLC

VARIABLES
    flowData,          \* the document handed to the analyzer / to calculateKPIs
    normalizedStates,  \* FlowAnalyzer.normalizedStates
    queue,             \* findOrphanStates: const queue
    reachableStates,   \* findOrphanStates: const reachableStates
    added,             \* history: the arguments of reachableStates.add, in call order
    orphanStates,      \* the value findOrphanStates returned
    pc,                \* position of the analyzer run
    kpis,              \* what the server's calculateKPIs(flowData) returned
    clientKpis,        \* what calculateAll() of the second KPICalculator returned
    metrics,           \* KPICalculator.metrics: what analyzer.analyze() returned
    legacyKpis,        \* what calculateAll() of the first KPICalculator returned
    analyses,          \* MemStorage.analyses
    currentId,         \* MemStorage.currentId
    now,               \* the time new Date() last returned
    calls,             \* history: <<document, result>> of every calculateKPIs call that returned
    response,          \* the last HTTP response sent
    requests,          \* concurrent uploads: each request's file, position and response
    storeLog           \* history: the MemStorage calls and what each returned

analyzerVars == <<normalizedStates, queue, reachableStates, added, orphanStates, pc>>

kpiVars == <<kpis, clientKpis, metrics, legacyKpis>>

storeVars == <<analyses, currentId, now, calls, response>>

hostVars == <<requests, storeLog>>

vars == <<flowData, analyzerVars, kpiVars, storeVars, hostVars>>

-----------------------------------------------------------------------------
(* Bounds of the model *)

MaxOutputs == 2

MaxActions == 2

MaxStates == 2

MaxCalls == 3

MaxNow == 1

-----------------------------------------------------------------------------
(* JavaScript values *)

Has(o, k) == k \in DOMAIN o

EmptyObj == [k \in {} |-> TRUE]

\* a result variable before its call has returned
NotCalled == [called |-> FALSE]

\* the JSON value null
Null == [isNull |-> TRUE]

\* a call that ended in a thrown TypeError
TypeError == [threw |-> "TypeError"]

\* s.includes(sub)
Includes(s, sub) ==
    \E i \in 0..(Len(s) - Len(sub)) : SubSeq(s, i + 1, i + Len(sub)) = sub

Whitespace == {" ", "\t", "\n"}

\* s.trim() === ''
TrimIsEmpty(s) == \A i \in 1..Len(s) : s[i] \in Whitespace

\* truthiness of an optional string field o.k
TruthyStr(o, k) == Has(o, k) /\ o[k] # <<>>

\* (o.k || [])  for an optional array field
ArrOr(o, k) == IF Has(o, k) THEN o[k] ELSE <<>>

SeqsUpTo(S, n) == UNION {[1..k -> S] : k \in 0..n}

RECURSIVE SumSeq(_)
SumSeq(s) == IF s = <<>> THEN 0 ELSE Head(s) + SumSeq(Tail(s))

RECURSIVE Flatten(_)
Flatten(ss) == IF ss = <<>> THEN <<>> ELSE Head(ss) \o Flatten(Tail(ss))

Range(s) == {s[i] : i \in 1..Len(s)}

-----------------------------------------------------------------------------
(* State ids used by the input families *)

ONBOARDING == <<"o","n","b","o","a","r","d","i","n","g">>
START      == <<"s","t","a","r","t">>
INICIO     == <<"i","n","i","c","i","o">>
A == <<"a">>
B == <<"b">>
C == <<"c">>
D == <<"d">>
GHOST == <<"z">>   \* names no state of any input

-----------------------------------------------------------------------------
(* FlowAnalyzer (flow-analyzer.ts) *)

\* stateId === 'onboarding' || stateId.includes('inicio') || stateId.includes('start')
isRootId(stateId) ==
    stateId = ONBOARDING \/ Includes(stateId, INICIO) \/ Includes(stateId, START)

\* the variant in which the raw state's own is_root is kept
normalizeStateKeepsFlag(stateId, raw) ==
    [is_root |-> IF Has(raw, "is_root") THEN raw.is_root ELSE isRootId(stateId),
     enteringCustomActions |-> ArrOr(raw, "$enteringCustomActions"),
     actions |-> ArrOr(raw, "$contentActions"),
     leavingCustomActions |-> ArrOr(raw, "$leavingCustomActions"),
     outputs |-> ArrOr(raw, "$conditionOutputs")]
    @@ ("$id" :> stateId)

\* One entry of stateIds.map(...) in normalizeFlowData; raw = flowStates[stateId].
\* A field whose right-hand side is undefined stays absent.
normalizeState(stateId, raw) ==
    ("$id" :> stateId)
    @@ (IF Has(raw, "$title") THEN ("$title" :> raw["$title"]) ELSE EmptyObj)
    @@ (IF Has(raw, "$position") THEN ("$position" :> raw["$position"]) ELSE EmptyObj)
    @@ (IF Has(raw, "$tags") THEN ("$tags" :> raw["$tags"]) ELSE EmptyObj)
    @@ [is_root |-> isRootId(stateId),
        enteringCustomActions |-> ArrOr(raw, "$enteringCustomActions"),
        actions |-> ArrOr(raw, "$contentActions"),
        leavingCustomActions |-> ArrOr(raw, "$leavingCustomActions"),
        outputs |-> ArrOr(raw, "$conditionOutputs")]
    @@ (IF Has(raw, "$defaultOutput")
        THEN [defaultOutput |-> raw["$defaultOutput"]] ELSE EmptyObj)

\* The flow object is a sequence of <<key, value>> entries in Object.keys order.
normalizeFlowData(fd) ==
    IF Has(fd, "flow")
    THEN [i \in 1..Len(fd.flow) |-> normalizeState(fd.flow[i][1], fd.flow[i][2])]
    ELSE ArrOr(fd, "states")

findRootStates(states) == SelectSeq(states, LAMBDA s : Has(s, "is_root") /\ s.is_root = TRUE)

\* states.find(state => state.$id === id): its index, 0 when there is none
FindIndex(states, id) ==
    IF \E i \in 1..Len(states) : states[i]["$id"] = id
    THEN CHOOSE i \in 1..Len(states) :
            /\ states[i]["$id"] = id
            /\ \A j \in 1..(i - 1) : states[j]["$id"] # id
    ELSE 0

\* Pushes with the default output forgotten.
PushesNoDefault(currentState, reachable) ==
    LET outputs == ArrOr(currentState, "outputs")
        fromOutputs == SelectSeq([i \in 1..Len(outputs) |-> outputs[i]],
                                 LAMBDA o : TruthyStr(o, "stateId") /\ o.stateId \notin reachable)
    IN  [i \in 1..Len(fromOutputs) |-> fromOutputs[i].stateId]

\* Pushes that stops at the first id it pushes.
PushesFirstOnly(currentState, reachable) ==
    LET outputs == ArrOr(currentState, "outputs")
        fromOutputs == SelectSeq([i \in 1..Len(outputs) |-> outputs[i]],
                                 LAMBDA o : TruthyStr(o, "stateId") /\ o.stateId \notin reachable)
        fromDefault ==
            IF /\ Has(currentState, "defaultOutput")
               /\ TruthyStr(currentState.defaultOutput, "stateId")
               /\ currentState.defaultOutput.stateId \notin reachable
            THEN <<currentState.defaultOutput>> ELSE <<>>
        all == [i \in 1..Len(fromOutputs) |-> fromOutputs[i].stateId]
               \o [i \in 1..Len(fromDefault) |-> fromDefault[i].stateId]
    IN  IF all = <<>> THEN <<>> ELSE <<all[1]>>

\* The ids the loop body pushes for currentState, given the visited set.
Pushes(currentState, reachable) ==
    LET outputs == ArrOr(currentState, "outputs")
        fromOutputs == SelectSeq([i \in 1..Len(outputs) |-> outputs[i]],
                                 LAMBDA o : TruthyStr(o, "stateId") /\ o.stateId \notin reachable)
        fromDefault ==
            IF /\ Has(currentState, "defaultOutput")
               /\ TruthyStr(currentState.defaultOutput, "stateId")
               /\ currentState.defaultOutput.stateId \notin reachable
            THEN <<currentState.defaultOutput>> ELSE <<>>
    IN  [i \in 1..Len(fromOutputs) |-> fromOutputs[i].stateId]
        \o [i \in 1..Len(fromDefault) |-> fromDefault[i].stateId]

\* BfsIter without `if (reachableStates.has(currentStateId)) continue`.
BfsIterNoContinue(states, q, reachable, i) ==
    LET currentStateId == q[i]
        rest == SubSeq(q, 1, i - 1) \o SubSeq(q, i + 1, Len(q))
        reach2 == reachable \cup {currentStateId}
        k == FindIndex(states, currentStateId)
    IN  [queue |-> rest \o (IF k = 0 THEN <<>> ELSE Pushes(states[k], reach2)),
         reachableStates |-> reach2,
         add |-> <<currentStateId>>]

\* One iteration of `while (queue.length > 0)`, the id at position i being the one
\* taken off the queue (queue.shift() takes position 1).
BfsIter(states, q, reachable, i) ==
    LET currentStateId == q[i]
        rest == SubSeq(q, 1, i - 1) \o SubSeq(q, i + 1, Len(q))
    IN  IF currentStateId \in reachable
        THEN [queue |-> rest, reachableStates |-> reachable, add |-> <<>>]
        ELSE LET reach2 == reachable \cup {currentStateId}
                 k == FindIndex(states, currentStateId)
             IN  [queue |-> rest \o (IF k = 0 THEN <<>> ELSE Pushes(states[k], reach2)),
                  reachableStates |-> reach2,
                  add |-> <<currentStateId>>]

IdsOfStates(states) == [i \in 1..Len(states) |-> states[i]["$id"]]

RootIds(states) ==
    IdsOfStates(findRootStates(states))

\* states.filter(state => !reachableStates.has(state.$id))
NotReached(states, reachable) == SelectSeq(states, LAMBDA s : s["$id"] \notin reachable)

\* while (queue.length > 0) { ... } run to its end from (q, reachable)
RECURSIVE BfsLoop(_, _, _)
BfsLoop(states, q, reachable) ==
    IF q = <<>> THEN reachable
    ELSE LET r == BfsIter(states, q, reachable, 1)
         IN  BfsLoop(states, r.queue, r.reachableStates)

-----------------------------------------------------------------------------
(* Inputs of the analyzer: flat-array documents over a small graph *)

Targets == {A, B, GHOST}

OutputsTo(ts) == [i \in 1..Len(ts) |-> [stateId |-> ts[i]]]

MkState(id, root, outs, def) ==
    ("$id" :> id) @@ [is_root |-> root, outputs |-> OutputsTo(outs)]
    @@ (IF def = <<>> THEN EmptyObj ELSE [defaultOutput |-> [stateId |-> def[1]]])

StatesOf(id) ==
    {MkState(id, r, o, d) : r \in BOOLEAN, o \in SeqsUpTo(Targets, MaxOutputs),
                            d \in SeqsUpTo(Targets, 1)}

DenseDocs == {[states |-> <<a, b>>] : a \in StatesOf(A), b \in StatesOf(B)}

\* Four states, each with no edge, one conditioned output or one default output.
SparseIds == <<A, B, C, D>>

SparseTargets == Range(SparseIds) \cup {GHOST}

SparseEdge ==
    {<<"none", GHOST>>} \cup {<<k, t>> : k \in {"output", "default"}, t \in SparseTargets}

MkSparse(id, root, e) ==
    MkState(id, root, IF e[1] = "output" THEN <<e[2]>> ELSE <<>>,
                      IF e[1] = "default" THEN <<e[2]>> ELSE <<>>)

SparseDocs ==
    {[states |-> [i \in 1..4 |-> MkSparse(SparseIds[i], r[i], e[i])]] :
        r \in {<<FALSE, FALSE, FALSE, FALSE>>, <<TRUE, FALSE, FALSE, FALSE>>,
               <<TRUE, FALSE, TRUE, FALSE>>},
        e \in [1..4 -> SparseEdge]}

\* Flow-map documents: the keys decide which states are roots.
MapTargets == {START, A, GHOST}

RawStates ==
    {("$conditionOutputs" :> OutputsTo(o))
       @@ (IF d = <<>> THEN EmptyObj ELSE ("$defaultOutput" :> [stateId |-> d[1]])) :
        o \in SeqsUpTo(MapTargets, 1), d \in SeqsUpTo(MapTargets, 1)}

MapDocs ==
    {[flow |-> <<<<k1, r1>>, <<A, r2>>>>] : k1 \in {START, B}, r1 \in RawStates, r2 \in RawStates}

AnalyzerDocs == DenseDocs \cup SparseDocs \cup MapDocs

-----------------------------------------------------------------------------
(* The analyzer run *)

InitAnalyzer ==
    /\ flowData \in AnalyzerDocs
    /\ normalizedStates = normalizeFlowData(flowData)
    /\ queue = <<>>
    /\ reachableStates = {}
    /\ added = <<>>
    /\ orphanStates = <<>>
    /\ pc = "constructed"
    /\ kpis = NotCalled /\ clientKpis = NotCalled /\ legacyKpis = NotCalled
    /\ metrics = NotCalled
    /\ analyses = EmptyObj /\ currentId = 1 /\ now = 0
    /\ calls = <<>> /\ response = NotCalled
    /\ requests = <<>> /\ storeLog = <<>>

\* findOrphanStates, up to the loop: queue = [...rootStates.map(state => state.$id)]
StartFindOrphans ==
    /\ pc = "constructed"
    /\ queue' = RootIds(normalizedStates)
    /\ reachableStates' = {}
    /\ pc' = "loop"
    /\ UNCHANGED <<flowData, normalizedStates, added, orphanStates, kpiVars, storeVars,
                   hostVars>>

BfsStepAt(i) ==
    /\ pc = "loop"
    /\ queue # <<>>
    /\ i \in 1..Len(queue)
    /\ LET r == BfsIter(normalizedStates, queue, reachableStates, i)
       IN  /\ queue' = r.queue
           /\ reachableStates' = r.reachableStates
           /\ added' = added \o r.add
    /\ UNCHANGED <<flowData, normalizedStates, orphanStates, pc, kpiVars, storeVars, hostVars>>

\* const currentStateId = queue.shift()!
BfsStep == BfsStepAt(1)

\* the loop has ended: return this.normalizedStates.filter(...)
ReturnOrphans ==
    /\ pc = "loop"
    /\ queue = <<>>
    /\ orphanStates' = NotReached(normalizedStates, reachableStates)
    /\ pc' = "done"
    /\ UNCHANGED <<flowData, normalizedStates, queue, reachableStates, added, kpiVars,
                   storeVars, hostVars>>

NextAnalyzer == StartFindOrphans \/ BfsStep \/ ReturnOrphans

SpecAnalyzer == InitAnalyzer /\ [][NextAnalyzer]_vars

\* The traversal is a synchronous loop: once entered it runs on.
SpecAnalyzerFair == SpecAnalyzer /\ WF_vars(NextAnalyzer)

\* The same run with the queue served in any order.
BfsStepAny == \E i \in 1..Len(queue) : BfsStepAt(i)

NextAnyOrder == StartFindOrphans \/ BfsStepAny \/ ReturnOrphans

SpecAnyOrder == InitAnalyzer /\ [][NextAnyOrder]_vars

-----------------------------------------------------------------------------
(* Numbers: exact rationals *)

Frac(n, d) == [n |-> n, d |-> d]

RInt(k) == Frac(k, 1)

RLe(a, b) == a.n * b.d <= b.n * a.d

REq(a, b) == a.n * b.d = b.n * a.d

RMin(a, b) == IF RLe(a, b) THEN a ELSE b

RMax(a, b) == IF RLe(a, b) THEN b ELSE a

Max(a, b) == IF a >= b THEN a ELSE b

Min(a, b) == IF a <= b THEN a ELSE b

\* array.filter(pred).length
Count(s, pred(_)) == Len(SelectSeq(s, pred))

-----------------------------------------------------------------------------
(* Strings the code names *)

PROCESS_HTTP   == <<"P","r","o","c","e","s","s","H","t","t","p">>
EXECUTE_SCRIPT == <<"E","x","e","c","u","t","e","S","c","r","i","p","t">>
SEND_MESSAGE   == <<"S","e","n","d","M","e","s","s","a","g","e">>
INPUT          == <<"I","n","p","u","t">>
SET_VARIABLE   == <<"S","e","t","V","a","r","i","a","b","l","e">>
OPEN_BRACES    == <<"{","{">>
CLOSE_BRACES   == <<"}","}">>
SELECT_JSON    == <<"a","p","p","l","i","c","a","t","i","o","n","/","v","n","d",".",
                    "l","i","m","e",".","s","e","l","e","c","t","+","j","s","o","n">>
SRC_INPUT      == <<"i","n","p","u","t">>
SRC_CONTEXT    == <<"c","o","n","t","e","x","t">>

Lower == {"a","b","c","d","e","f","g","h","i","j","k","l","m",
          "n","o","p","q","r","s","t","u","v","w","x","y","z"}
Upper == {"A","B","C","D","E","F","G","H","I","J","K","L","M",
          "N","O","P","Q","R","S","T","U","V","W","X","Y","Z"}
Digit == {"0","1","2","3","4","5","6","7","8","9"}

\* /^[a-z][a-zA-Z0-9]*$/.test(str)
isCamelCase(str) ==
    /\ Len(str) >= 1
    /\ str[1] \in Lower
    /\ \A i \in 2..Len(str) : str[i] \in Lower \cup Upper \cup Digit

\* source.split('\n').length
LineCount(source) == 1 + Cardinality({i \in 1..Len(source) : source[i] = "\n"})

-----------------------------------------------------------------------------
(* JSON.stringify.  An object's own keys are written in KeyOrder, the order  *)
(* in which the input families insert them; KeyType gives the type of the   *)
(* value a key holds in those families.                                     *)

KeyOrder == <<"$id", "$title", "type", "settings", "inputVariables", "outputVariable",
              "uri", "headers", "Authorization", "authorization", "AUTHORIZATION",
              "responseStatusVariable", "async", "source", "content", "rawContent",
              "$cardContent", "inputSuggestions", "validation", "rule",
              "variable", "value", "stateId">>

KeyType(k) ==
    CASE k \in {"settings", "headers", "$cardContent", "validation"} -> "object"
      [] k \in {"inputVariables", "inputSuggestions"} -> "strings"
      [] k = "async" -> "boolean"
      [] OTHER -> "string"

KeyChars(k) ==
    CASE k = "$id" -> <<"$","i","d">>
      [] k = "$title" -> <<"$","t","i","t","l","e">>
      [] k = "type" -> <<"t","y","p","e">>
      [] k = "settings" -> <<"s","e","t","t","i","n","g","s">>
      [] k = "inputVariables" -> <<"i","n","p","u","t","V","a","r","i","a","b","l","e","s">>
      [] k = "outputVariable" -> <<"o","u","t","p","u","t","V","a","r","i","a","b","l","e">>
      [] k = "uri" -> <<"u","r","i">>
      [] k = "headers" -> <<"h","e","a","d","e","r","s">>
      [] k = "Authorization" -> <<"A","u","t","h","o","r","i","z","a","t","i","o","n">>
      [] k = "authorization" -> <<"a","u","t","h","o","r","i","z","a","t","i","o","n">>
      [] k = "AUTHORIZATION" -> <<"A","U","T","H","O","R","I","Z","A","T","I","O","N">>
      [] k = "responseStatusVariable" ->
            <<"r","e","s","p","o","n","s","e","S","t","a","t","u","s",
              "V","a","r","i","a","b","l","e">>
      [] k = "async" -> <<"a","s","y","n","c">>
      [] k = "source" -> <<"s","o","u","r","c","e">>
      [] k = "content" -> <<"c","o","n","t","e","n","t">>
      [] k = "rawContent" -> <<"r","a","w","C","o","n","t","e","n","t">>
      [] k = "$cardContent" -> <<"$","c","a","r","d","C","o","n","t","e","n","t">>
      [] k = "inputSuggestions" ->
            <<"i","n","p","u","t","S","u","g","g","e","s","t","i","o","n","s">>
      [] k = "validation" -> <<"v","a","l","i","d","a","t","i","o","n">>
      [] k = "rule" -> <<"r","u","l","e">>
      [] k = "variable" -> <<"v","a","r","i","a","b","l","e">>
      [] k = "value" -> <<"v","a","l","u","e">>
      [] k = "stateId" -> <<"s","t","a","t","e","I","d">>

\* the characters of a string inside its quotes
RECURSIVE Escape(_)
Escape(str) ==
    IF str = <<>> THEN <<>>
    ELSE IF Len(str) = 1
    THEN (CASE str[1] = "\"" -> <<"\\", "\"">>
            [] str[1] = "\\" -> <<"\\", "\\">>
            [] str[1] = "\n" -> <<"\\", "n">>
            [] OTHER -> str)
    ELSE LET half == Len(str) \div 2
         IN  Escape(SubSeq(str, 1, half)) \o Escape(SubSeq(str, half + 1, Len(str)))

Quote(str) == <<"\"">> \o Escape(str) \o <<"\"">>

RECURSIVE JoinComma(_)
JoinComma(parts) ==
    IF parts = <<>> THEN <<>>
    ELSE IF Len(parts) = 1 THEN parts[1]
    ELSE parts[1] \o <<",">> \o JoinComma(Tail(parts))

RECURSIVE stringify(_, _)
stringify(v, type) ==
    CASE type = "string" -> Quote(v)
      [] type = "boolean" -> IF v THEN <<"t","r","u","e">> ELSE <<"f","a","l","s","e">>
      [] type = "strings" ->
            <<"[">> \o JoinComma([i \in 1..Len(v) |-> Quote(v[i])]) \o <<"]">>
      [] type = "object" ->
            LET keys == SelectSeq(KeyOrder, LAMBDA k : k \in DOMAIN v)
            IN  <<"{">>
                \o JoinComma([i \in 1..Len(keys) |->
                       Quote(KeyChars(keys[i])) \o <<":">>
                       \o stringify(v[keys[i]], KeyType(keys[i]))])
                \o <<"}">>

-----------------------------------------------------------------------------
(* Server pipeline: calculateKPIs (server/storage.ts) *)

\* action.settings || {}
Settings(action) == IF Has(action, "settings") THEN action.settings ELSE EmptyObj

\* action.settings?.k || ''
SettingStr(action, k) == IF Has(Settings(action), k) THEN Settings(action)[k] ELSE <<>>

\* states = stateIds.map(stateId => ({ $id: stateId, ...raw, actions: ..., ... }))
serverState(stateId, raw) ==
    [actions |-> ArrOr(raw, "$contentActions"),
     outputs |-> ArrOr(raw, "$conditionOutputs"),
     enteringCustomActions |-> ArrOr(raw, "$enteringCustomActions"),
     leavingCustomActions |-> ArrOr(raw, "$leavingCustomActions"),
     is_root |-> isRootId(stateId)]
    @@ raw @@ ("$id" :> stateId)

\* flowStates[stateId].$contentActions reads a property of null: a TypeError
serverStatesThrows(fd) ==
    \E i \in 1..Len(ArrOr(fd, "flow")) : ArrOr(fd, "flow")[i][2] = Null

serverStates(fd) ==
    LET flowStates == ArrOr(fd, "flow")
    IN  [i \in 1..Len(flowStates) |-> serverState(flowStates[i][1], flowStates[i][2])]

\* StateActions with the content actions listed before the entering ones.
StateActionsContentFirst(state) ==
    LET all == ArrOr(state, "actions") \o ArrOr(state, "enteringCustomActions")
               \o ArrOr(state, "leavingCustomActions")
    IN  [i \in 1..Len(all) |->
            (IF Has(all[i], "stateId") THEN [all[i] EXCEPT !.stateId = state["$id"]]
             ELSE all[i] @@ [stateId |-> state["$id"]])]

\* [...entering, ...actions, ...leaving] of one state, each as { ...action, stateId }
StateActions(state) ==
    LET all == ArrOr(state, "enteringCustomActions") \o ArrOr(state, "actions")
               \o ArrOr(state, "leavingCustomActions")
    IN  [i \in 1..Len(all) |->
            (IF Has(all[i], "stateId") THEN [all[i] EXCEPT !.stateId = state["$id"]]
             ELSE all[i] @@ [stateId |-> state["$id"]])]

getAllActions(states) == Flatten([i \in 1..Len(states) |-> StateActions(states[i])])

getActionsOfType(states, type) ==
    SelectSeq(getAllActions(states), LAMBDA a : Has(a, "type") /\ a.type = type)

InvalidId(state) == ~Has(state, "$id") \/ state["$id"] = <<>> \/ TrimIsEmpty(state["$id"])

calculateHealthScore(states) ==
    LET totalComponents == Len(states)
        invalidComponents == Count(states, InvalidId)
    IN  RMax(RInt(0), RMin(RInt(1), Frac(totalComponents - invalidComponents, totalComponents)))

ConditionsOf(output) == ArrOr(output, "conditions")

StateConditionCount(state) ==
    LET outputs == ArrOr(state, "outputs")
    IN  SumSeq([i \in 1..Len(outputs) |-> Len(ConditionsOf(outputs[i]))])

HasCustomActions(state) ==
    Len(ArrOr(state, "enteringCustomActions")) + Len(ArrOr(state, "leavingCustomActions")) > 0

\* min(10, stateCount * 0.4 + avgConditions * 0.3 + customActionsRate * 10 * 0.3)
calculateComplexityIndex(states) ==
    LET stateCount == Len(states)
        m == Max(1, stateCount)
        conditions == SumSeq([i \in 1..Len(states) |-> StateConditionCount(states[i])])
        custom == Count(states, HasCustomActions)
    IN  RMin(RInt(10), Frac(4 * stateCount * m + 3 * conditions + 30 * custom, 10 * m))

calculateExternalDependencyIndex(httpActions, scriptActions, totalStates) ==
    LET statesWithExternalDeps ==
            {a.stateId : a \in Range(httpActions)} \cup {a.stateId : a \in Range(scriptActions)}
    IN  Frac(100 * Cardinality(statesWithExternalDeps), Max(1, totalStates))

HasTitle(o) == Has(o, "$title") /\ o["$title"] # <<>> /\ ~TrimIsEmpty(o["$title"])

HasTags(state) == Has(state, "$tags") /\ Len(state["$tags"]) > 0

\* ((titleScore + tagScore) / 2) * 100
calculateMaintainabilityScore(states, actions) ==
    LET actionsWithTitles == Count(actions, HasTitle)
        statesWithTags == Count(states, HasTags)
        titleScore == IF Len(actions) > 0 THEN Frac(actionsWithTitles, Len(actions)) ELSE RInt(1)
        tagScore == IF Len(states) > 0 THEN Frac(statesWithTags, Len(states)) ELSE RInt(1)
    IN  Frac(100 * (titleScore.n * tagScore.d + tagScore.n * titleScore.d),
             2 * titleScore.d * tagScore.d)

calculateBranchingFactor(states) ==
    Frac(SumSeq([i \in 1..Len(states) |-> Len(ArrOr(states[i], "outputs"))]),
         Max(1, Len(states)))

calculateFlowCohesion(states) == Min(10, Max(1, (Len(states) \div 8) + 1))

\* content = settings?.content || settings?.rawContent || ''
IsDynamicMessage(action) ==
    LET content == IF SettingStr(action, "content") # <<>>
                   THEN SettingStr(action, "content") ELSE SettingStr(action, "rawContent")
    IN  Includes(content, OPEN_BRACES) /\ Includes(content, CLOSE_BRACES)

calculateDynamicContentRate(sendMessageActions) ==
    IF Len(sendMessageActions) = 0 THEN RInt(0)
    ELSE Frac(100 * Count(sendMessageActions, IsDynamicMessage), Len(sendMessageActions))

\* server findOrphanStates: rootStates = states.filter(state => state.is_root)
findOrphanStates(states) ==
    LET rootStates == SelectSeq(states, LAMBDA s : Has(s, "is_root") /\ s.is_root = TRUE)
        reachable == BfsLoop(states, IdsOfStates(rootStates), {})
    IN  NotReached(states, reachable)

calculateDeadCodePotential(states) == Len(findOrphanStates(states))

estimateClusters(states) == Max(1, Min(10, Len(states) \div 8))


(* HTTP-specific metrics *)

HasStatusVariable(action) == TruthyStr(Settings(action), "responseStatusVariable")

calculateIntegrationHealth(httpActions) ==
    IF Len(httpActions) = 0 THEN RInt(100)
    ELSE Frac(100 * Count(httpActions, HasStatusVariable), Len(httpActions))

\* httpActions.map(action => action.settings?.uri).filter(Boolean)
Uris(httpActions) ==
    LET withUri == SelectSeq(httpActions, LAMBDA a : TruthyStr(Settings(a), "uri"))
    IN  [i \in 1..Len(withUri) |-> withUri[i].settings.uri]

\* calculateDiversityOfEndpoints without .filter(Boolean).
calculateDiversityUnfiltered(httpActions) ==
    Cardinality({SettingStr(a, "uri") : a \in Range(httpActions)})

calculateDiversityOfEndpoints(httpActions) == Cardinality(Range(Uris(httpActions)))

\* headers.Authorization || headers.authorization
HasAuthorization(action) ==
    LET headers == IF Has(Settings(action), "headers") THEN Settings(action).headers
                   ELSE EmptyObj
    IN  TruthyStr(headers, "Authorization") \/ TruthyStr(headers, "authorization")

calculateSecurityRate(httpActions) ==
    IF Len(httpActions) = 0 THEN RInt(100)
    ELSE Frac(100 * Count(httpActions, HasAuthorization), Len(httpActions))

\* httpActions.forEach(action => { if (uri) uriCounts.set(uri, (uriCounts.get(uri) || 0) + 1) })
RECURSIVE CountUris(_, _)
CountUris(httpActions, uriCounts) ==
    IF httpActions = <<>> THEN uriCounts
    ELSE LET action == Head(httpActions)
             uri == SettingStr(action, "uri")
         IN  CountUris(Tail(httpActions),
                       IF uri # <<>>
                       THEN (uri :> ((IF uri \in DOMAIN uriCounts THEN uriCounts[uri] ELSE 0) + 1))
                            @@ uriCounts
                       ELSE uriCounts)

UriCounts(httpActions) == CountUris(httpActions, EmptyObj)

RECURSIVE SumOver(_, _)
SumOver(f, keys) ==
    IF keys = {} THEN 0
    ELSE LET k == CHOOSE x \in keys : TRUE IN f[k] + SumOver(f, keys \ {k})

calculateReutilizationRate(httpActions) ==
    LET uriCounts == UriCounts(httpActions)
        totalCalls == SumOver(uriCounts, DOMAIN uriCounts)
        uniqueUris == Cardinality(DOMAIN uriCounts)
    IN  IF uniqueUris > 0 THEN Frac(totalCalls, uniqueUris) ELSE RInt(0)

IsBlocking(action) == ~(Has(Settings(action), "async") /\ Settings(action).async = TRUE)

\* calculatePerformanceRisk counting every HTTP action.
calculatePerformanceRiskAll(httpActions) == Len(httpActions)

calculatePerformanceRisk(httpActions) == Count(httpActions, IsBlocking)

(* Script-specific metrics *)

HasInput(action) == Has(action, "inputVariables") /\ Len(action.inputVariables) > 0

HasOutput(action) == TruthyStr(action, "outputVariable")

\* the variant in which the two line thresholds are alternatives
ScriptRiskNotAdditive(action) ==
    LET lines == LineCount(SettingStr(action, "source"))
    IN  Min(10, (IF lines > 50 THEN 3 ELSE IF lines > 10 THEN 2 ELSE 0)
                + (IF ~HasInput(action) THEN 2 ELSE 0)
                + (IF ~HasOutput(action) THEN 2 ELSE 0))

ScriptRisk(action) ==
    LET lines == LineCount(SettingStr(action, "source"))
    IN  Min(10, (IF lines > 10 THEN 2 ELSE 0) + (IF lines > 50 THEN 3 ELSE 0)
                + (IF ~HasInput(action) THEN 2 ELSE 0)
                + (IF ~HasOutput(action) THEN 2 ELSE 0))

calculateAverageRiskScore(scriptActions) ==
    IF Len(scriptActions) = 0 THEN RInt(0)
    ELSE Frac(SumSeq([i \in 1..Len(scriptActions) |-> ScriptRisk(scriptActions[i])]),
              Len(scriptActions))

\* JSON.stringify(action.settings || {}).includes(outputVar) for some action
IsDeadScript(script, allActions) ==
    \/ ~HasOutput(script)
    \/ ~\E i \in 1..Len(allActions) :
            Includes(stringify(Settings(allActions[i]), "object"), script.outputVariable)

calculateScriptDeadCodeRate(scriptActions, allActions) ==
    IF Len(scriptActions) = 0 THEN RInt(0)
    ELSE Frac(100 * Count(scriptActions, LAMBDA a : IsDeadScript(a, allActions)),
              Len(scriptActions))

IsHighCoupling(script) == Len(ArrOr(script, "inputVariables")) > 3

calculateCouplingRate(scriptActions) ==
    IF Len(scriptActions) = 0 THEN RInt(0)
    ELSE Frac(100 * Count(scriptActions, IsHighCoupling), Len(scriptActions))

\* scriptActions.map(action => action.settings?.source || '').filter(Boolean)
Sources(scriptActions) ==
    LET withSource == SelectSeq(scriptActions, LAMBDA a : SettingStr(a, "source") # <<>>)
    IN  [i \in 1..Len(withSource) |-> withSource[i].settings.source]

calculateDuplicatedCodeRate(scriptActions) ==
    IF Len(scriptActions) = 0 THEN RInt(0)
    ELSE LET sources == Sources(scriptActions)
         IN  IF Len(sources) > 0
             THEN Frac(100 * (Len(sources) - Cardinality(Range(sources))), Len(sources))
             ELSE RInt(0)

IsConsistentlyNamed(action) ==
    /\ \A v \in Range(ArrOr(action, "inputVariables")) : isCamelCase(v)
    /\ (~HasOutput(action) \/ isCamelCase(action.outputVariable))

calculateNamingConsistency(scriptActions) ==
    IF Len(scriptActions) = 0 THEN RInt(100)
    ELSE Frac(100 * Count(scriptActions, IsConsistentlyNamed), Len(scriptActions))

(* Interaction-specific metrics *)

IsSelect(action) == Includes(SettingStr(action, "content"), SELECT_JSON)

SuggestionCount(action) ==
    IF Has(Settings(action), "inputSuggestions") THEN Len(Settings(action).inputSuggestions)
    ELSE 0

MessageRichness(action) ==
    (IF IsSelect(action) THEN 3 ELSE 0)
    + (IF Has(Settings(action), "$cardContent") THEN 2 ELSE 0) + 1

InputRichness(action) == (IF SuggestionCount(action) > 0 THEN 2 ELSE 0) + 1

calculateRichnessScore(sendMessageActions, inputActions) ==
    LET totalActions == Len(sendMessageActions) + Len(inputActions)
    IN  IF totalActions = 0 THEN RInt(0)
        ELSE Frac(SumSeq([i \in 1..Len(sendMessageActions) |->
                             MessageRichness(sendMessageActions[i])])
                  + SumSeq([i \in 1..Len(inputActions) |-> InputRichness(inputActions[i])]),
                  totalActions)

HasValidation(action) == Has(Settings(action), "validation")

calculateInputRobustness(inputActions) ==
    IF Len(inputActions) = 0 THEN RInt(100)
    ELSE Frac(100 * Count(inputActions, HasValidation), Len(inputActions))

\* 3.2
calculateNavigationClarity(sendMessageActions) ==
    IF Count(sendMessageActions, IsSelect) = 0 THEN RInt(0) ELSE Frac(32, 10)

calculateDeadEndsRate(inputActions) ==
    IF Len(inputActions) = 0 THEN RInt(0) ELSE RInt(12)

\* calculateConsistencyScore without the floor at 0.
calculateConsistencyScoreUnfloored(inputActions) ==
    IF Len(inputActions) = 0 THEN RInt(100)
    ELSE LET suggestionsData == [i \in 1..Len(inputActions) |->
                                    SuggestionCount(inputActions[i])]
             L == Len(suggestionsData)
             S == SumSeq(suggestionsData)
             sq == SumSeq([i \in 1..L |->
                             (L * suggestionsData[i] - S) * (L * suggestionsData[i] - S)])
         IN  Frac(100 * L * L * L - 10 * sq, L * L * L)

\* Math.max(0, 100 - variance * 10), the variance of the suggestion counts being
\* sum((L * v - S)^2) / L^3 for L values v of sum S
calculateConsistencyScore(inputActions) ==
    IF Len(inputActions) = 0 THEN RInt(100)
    ELSE LET suggestionsData == [i \in 1..Len(inputActions) |->
                                    SuggestionCount(inputActions[i])]
             L == Len(suggestionsData)
             S == SumSeq(suggestionsData)
             sq == SumSeq([i \in 1..L |->
                             (L * suggestionsData[i] - S) * (L * suggestionsData[i] - S)])
         IN  RMax(RInt(0), Frac(100 * L * L * L - 10 * sq, L * L * L))

(* Variable-specific metrics *)

\* setAction.outputVariable || setAction.settings?.variable
VarName(action) ==
    IF HasOutput(action) THEN action.outputVariable ELSE SettingStr(action, "variable")

\* `action === setAction` compares two object references.  allActions and
\* setVariableActions come from two calls of getAllActions, and each call builds new
\* objects ({ ...action, stateId }), so on the server the comparison is never true.
IsOrphanVariable(setAction, allActions) ==
    \/ VarName(setAction) = <<>>
    \/ ~\E i \in 1..Len(allActions) :
            Includes(stringify(allActions[i], "object"), VarName(setAction))

calculateOrphanRate(setVariableActions, allActions) ==
    IF Len(setVariableActions) = 0 THEN RInt(0)
    ELSE Frac(100 * Count(setVariableActions, LAMBDA a : IsOrphanVariable(a, allActions)),
              Len(setVariableActions))

\* 4.2
calculateAverageLifecycle(setVariableActions, states) == Frac(42, 10)

\* states.flatMap(state => (state.outputs || []).flatMap(output => output.conditions || []))
AllConditions(states) ==
    Flatten([i \in 1..Len(states) |->
        LET outputs == ArrOr(states[i], "outputs")
        IN  Flatten([j \in 1..Len(outputs) |-> ConditionsOf(outputs[j])])])

calculateConditionComplexity(states) ==
    LET allConditions == AllConditions(states)
    IN  IF Len(allConditions) = 0 THEN RInt(0)
        ELSE Frac(Len(allConditions), Max(1, Len(states)))

HasSource(condition, src) == Has(condition, "source") /\ condition.source = src

calculateSourceDistribution(states) ==
    LET allConditions == AllConditions(states)
        inputConditions == Count(allConditions, LAMBDA c : HasSource(c, SRC_INPUT))
        contextConditions == Count(allConditions, LAMBDA c : HasSource(c, SRC_CONTEXT))
        total == inputConditions + contextConditions
    IN  IF total = 0 THEN [input |-> RInt(0), context |-> RInt(0)]
        ELSE [input |-> Frac(100 * inputConditions, total),
              context |-> Frac(100 * contextConditions, total)]

\* a condition without `variable` contributes undefined, which no Set of names holds
calculateMagicVariablesRate(states, setVariableActions) ==
    LET definedVariables == {VarName(a) : a \in Range(setVariableActions)} \ {<<>>}
        contextConditions == SelectSeq(AllConditions(states),
                                       LAMBDA c : HasSource(c, SRC_CONTEXT))
        magicVariables == Count(contextConditions,
                                LAMBDA c : ~(Has(c, "variable")
                                             /\ c.variable \in definedVariables))
    IN  IF Len(contextConditions) > 0
        THEN Frac(100 * magicVariables, Len(contextConditions)) ELSE RInt(0)

getEmptyKPIs ==
    [healthScore |-> RInt(0), complexityIndex |-> RInt(0),
     externalDependencyIndex |-> RInt(0), maintainabilityScore |-> RInt(0),
     branchingFactor |-> RInt(0), flowCohesion |-> 0, dynamicContentRate |-> RInt(0),
     deadCodePotential |-> 0, totalStates |-> 0, orphanStates |-> 0, clusters |-> 0,
     httpActions |-> [count |-> 0, integrationHealth |-> RInt(0),
                      diversityOfEndpoints |-> 0, securityRate |-> RInt(0),
                      reutilizationRate |-> RInt(0), performanceRisk |-> 0],
     scriptActions |-> [count |-> 0, averageRiskScore |-> RInt(0), deadCodeRate |-> RInt(0),
                        couplingRate |-> RInt(0), duplicatedCodeRate |-> RInt(0),
                        namingConsistency |-> RInt(0)],
     interactionActions |-> [count |-> 0, richnessScore |-> RInt(0),
                             inputRobustness |-> RInt(0), navigationClarity |-> RInt(0),
                             deadEndsRate |-> RInt(0), consistencyScore |-> RInt(0)],
     variableActions |-> [count |-> 0, orphanRate |-> RInt(0), averageLifecycle |-> RInt(0),
                          conditionComplexity |-> RInt(0),
                          sourceDistribution |-> [input |-> RInt(0), context |-> RInt(0)],
                          magicVariablesRate |-> RInt(0)]]

\* calculateKPIs with a counter kept between the calls.
calculateKPIsCounting(fd) ==
    [getEmptyKPIs EXCEPT !.totalStates = Len(ArrOr(fd, "flow")) + Len(calls)]

calculateKPIs(fd) ==
    LET states == serverStates(fd)
        totalStates == Len(states)
        allActions == getAllActions(states)
        httpActions == getActionsOfType(states, PROCESS_HTTP)
        scriptActions == getActionsOfType(states, EXECUTE_SCRIPT)
        sendMessageActions == getActionsOfType(states, SEND_MESSAGE)
        inputActions == getActionsOfType(states, INPUT)
        setVariableActions == getActionsOfType(states, SET_VARIABLE)
    IN  IF serverStatesThrows(fd) THEN TypeError
        ELSE IF totalStates = 0 THEN getEmptyKPIs
        ELSE
    [healthScore |-> calculateHealthScore(states),
     complexityIndex |-> calculateComplexityIndex(states),
     externalDependencyIndex |->
        calculateExternalDependencyIndex(httpActions, scriptActions, totalStates),
     maintainabilityScore |-> calculateMaintainabilityScore(states, allActions),
     branchingFactor |-> calculateBranchingFactor(states),
     flowCohesion |-> calculateFlowCohesion(states),
     dynamicContentRate |-> calculateDynamicContentRate(sendMessageActions),
     deadCodePotential |-> calculateDeadCodePotential(states),
     totalStates |-> totalStates,
     orphanStates |-> Len(findOrphanStates(states)),
     clusters |-> estimateClusters(states),
     httpActions |->
        [count |-> Len(httpActions),
         integrationHealth |-> calculateIntegrationHealth(httpActions),
         diversityOfEndpoints |-> calculateDiversityOfEndpoints(httpActions),
         securityRate |-> calculateSecurityRate(httpActions),
         reutilizationRate |-> calculateReutilizationRate(httpActions),
         performanceRisk |-> calculatePerformanceRisk(httpActions)],
     scriptActions |->
        [count |-> Len(scriptActions),
         averageRiskScore |-> calculateAverageRiskScore(scriptActions),
         deadCodeRate |-> calculateScriptDeadCodeRate(scriptActions, allActions),
         couplingRate |-> calculateCouplingRate(scriptActions),
         duplicatedCodeRate |-> calculateDuplicatedCodeRate(scriptActions),
         namingConsistency |-> calculateNamingConsistency(scriptActions)],
     interactionActions |->
        [count |-> Len(sendMessageActions) + Len(inputActions),
         richnessScore |-> calculateRichnessScore(sendMessageActions, inputActions),
         inputRobustness |-> calculateInputRobustness(inputActions),
         navigationClarity |-> calculateNavigationClarity(sendMessageActions),
         deadEndsRate |-> calculateDeadEndsRate(inputActions),
         consistencyScore |-> calculateConsistencyScore(inputActions)],
     variableActions |->
        [count |-> Len(setVariableActions),
         orphanRate |-> calculateOrphanRate(setVariableActions, allActions),
         averageLifecycle |-> calculateAverageLifecycle(setVariableActions, states),
         conditionComplexity |-> calculateConditionComplexity(states),
         sourceDistribution |-> calculateSourceDistribution(states),
         magicVariablesRate |-> calculateMagicVariablesRate(states, setVariableActions)]]

-----------------------------------------------------------------------------
(* FlowAnalyzer: what the KPI calculators read of analyze() *)

\* actionsByType: the Map as a function from the types met to their action lists
categorizeActions(states) ==
    LET tagged == getAllActions(states)
    IN  [t \in {a.type : a \in Range(tagged)} |-> SelectSeq(tagged, LAMBDA a : a.type = t)]

\* actionsByType.get(type) || []
ActionsByTypeGet(actionsByType, type) ==
    IF type \in DOMAIN actionsByType THEN actionsByType[type] ELSE <<>>

\* the variant whose medium threshold is off by one
ScriptSeverityFromTwenty(action) ==
    LET lines == LineCount(SettingStr(action, "source"))
    IN  IF lines > 50 \/ ~HasInput(action) \/ ~HasOutput(action) THEN "high"
        ELSE IF lines >= 20 THEN "medium"
        ELSE "low"

ScriptSeverity(action) ==
    LET lines == LineCount(SettingStr(action, "source"))
    IN  IF lines > 50 \/ ~HasInput(action) \/ ~HasOutput(action) THEN "high"
        ELSE IF lines > 20 THEN "medium"
        ELSE "low"

\* The risks one action pushes.  A risk is kept as its type, its severity and the id
\* of the state its location names; the title, description and recommendation texts
\* are read by no calculation.
ActionRisks(state, action) ==
    (IF action.type = EXECUTE_SCRIPT
     THEN <<[type |-> "high_risk_script", severity |-> ScriptSeverity(action),
             location |-> state["$id"]]>>
     ELSE <<>>)
    \o (IF action.type = PROCESS_HTTP /\ IsBlocking(action)
        THEN <<[type |-> "performance_risk", severity |-> "medium",
                location |-> state["$id"]]>>
        ELSE <<>>)
    \o (IF action.type = PROCESS_HTTP /\ ~HasAuthorization(action)
        THEN <<[type |-> "security_risk", severity |-> "medium",
                location |-> state["$id"]]>>
        ELSE <<>>)

\* [...entering, ...actions, ...leaving] of one state, as the state holds them
RawActions(state) ==
    ArrOr(state, "enteringCustomActions") \o ArrOr(state, "actions")
    \o ArrOr(state, "leavingCustomActions")

\* FlowAnalyzer.findOrphanStates run to its end
analyzerOrphanStates(states) == NotReached(states, BfsLoop(states, RootIds(states), {}))

identifyRiskFactors(states) ==
    LET orphans == analyzerOrphanStates(states)
    IN  Flatten([i \in 1..Len(states) |->
            LET allActions == RawActions(states[i])
            IN  Flatten([j \in 1..Len(allActions) |-> ActionRisks(states[i], allActions[j])])])
        \o [i \in 1..Len(orphans) |->
              [type |-> "dead_code", severity |-> "low", location |-> orphans[i]["$id"]]]

\* buildConnectionMap with the default output's target put first.
StateConnectionsDefaultFirst(state) ==
    LET outputs == ArrOr(state, "outputs")
        fromOutputs == SelectSeq([i \in 1..Len(outputs) |-> outputs[i]],
                                 LAMBDA o : TruthyStr(o, "stateId"))
    IN  (IF Has(state, "defaultOutput") /\ TruthyStr(state.defaultOutput, "stateId")
         THEN <<state.defaultOutput.stateId>> ELSE <<>>)
        \o [i \in 1..Len(fromOutputs) |-> fromOutputs[i].stateId]

\* const stateConnections of one state: the truthy stateId of each output, then the
\* truthy stateId of the default output
StateConnections(state) ==
    LET outputs == ArrOr(state, "outputs")
        fromOutputs == SelectSeq([i \in 1..Len(outputs) |-> outputs[i]],
                                 LAMBDA o : TruthyStr(o, "stateId"))
    IN  [i \in 1..Len(fromOutputs) |-> fromOutputs[i].stateId]
        \o (IF Has(state, "defaultOutput") /\ TruthyStr(state.defaultOutput, "stateId")
            THEN <<state.defaultOutput.stateId>> ELSE <<>>)

\* connections.set(state.$id, stateConnections) for every state in order: the Map as
\* a function from the ids, a later state of the same id replacing an earlier one
buildConnectionMap(states) ==
    [id \in Range(IdsOfStates(states)) |->
        StateConnections(states[CHOOSE i \in 1..Len(states) :
                                    /\ states[i]["$id"] = id
                                    /\ \A j \in (i + 1)..Len(states) : states[j]["$id"] # id])]

calculateComplexity(states) ==
    LET stateCount == Len(states)
        m == Max(1, stateCount)
        totalConditions == SumSeq([i \in 1..Len(states) |-> StateConditionCount(states[i])])
        statesWithCustomActions == Count(states, HasCustomActions)
    IN  RMin(RInt(10),
             Frac(4 * stateCount * m + 3 * totalConditions + 30 * statesWithCustomActions,
                  10 * m))

\* analyze(), the fields the calculators read
analyze(states) ==
    [totalStates |-> Len(states),
     rootStates |-> findRootStates(states),
     orphanStates |-> analyzerOrphanStates(states),
     actionsByType |-> categorizeActions(states),
     stateConnections |-> buildConnectionMap(states),
     riskFactors |-> identifyRiskFactors(states)]

-----------------------------------------------------------------------------
(* KPICalculator over the normalizing FlowAnalyzer (second listing) *)

IsInvalidComponent(risk) == risk.type = "dead_code" \/ risk.severity = "high"

Kpi2_calculateHealthScore(analysis) ==
    LET totalComponents == analysis.totalStates
        invalidComponents == Count(analysis.riskFactors, IsInvalidComponent)
    IN  IF totalComponents = 0 THEN RInt(0)
        ELSE RMax(RInt(0), RMin(RInt(100),
                  Frac(100 * totalComponents - 100 * invalidComponents, totalComponents)))

Kpi2_calculateComplexityIndex(states) == calculateComplexity(states)

\* new KPICalculator(flowData).calculateAll(), the fields the claims read
Kpi2_calculateAll(fd) ==
    LET states == normalizeFlowData(fd)
        analysis == analyze(states)
    IN  [healthScore |-> Kpi2_calculateHealthScore(analysis),
         complexityIndex |-> Kpi2_calculateComplexityIndex(states),
         \* calculateDynamicContentRate: the server's filter over actionsByType.get("SendMessage")
         dynamicContentRate |->
            calculateDynamicContentRate(ActionsByTypeGet(analysis.actionsByType, SEND_MESSAGE))]

-----------------------------------------------------------------------------
(* KPICalculator over flowData.states (first listing) *)

Kpi1_calculateHealthScore(states) ==
    LET totalComponents == Len(states)
        invalidComponents == Count(states, InvalidId)
    IN  IF totalComponents = 0 THEN RInt(0)
        ELSE RMax(RInt(0), RMin(RInt(1),
                  Frac(totalComponents - invalidComponents, totalComponents)))

Kpi1_calculateComplexityIndex(states) ==
    LET stateCount == Len(states)
        totalConditions == SumSeq([i \in 1..Len(states) |-> StateConditionCount(states[i])])
        statesWithCustomActions == Count(states, HasCustomActions)
    IN  IF stateCount = 0 THEN RInt(0)
        ELSE RMin(RInt(10),
                  Frac(4 * stateCount * stateCount + 3 * totalConditions
                       + 30 * statesWithCustomActions, 10 * stateCount))

Kpi1_calculateHttpMetrics(actionsByType) ==
    LET httpActions == ActionsByTypeGet(actionsByType, PROCESS_HTTP)
        uniqueUris == Range(Uris(httpActions))
        uriCounts == UriCounts(httpActions)
        totalCalls == SumOver(uriCounts, DOMAIN uriCounts)
    IN  IF Len(httpActions) = 0
        THEN [count |-> 0, integrationHealth |-> RInt(100), diversityOfEndpoints |-> 0,
              securityRate |-> RInt(100), reutilizationRate |-> RInt(0),
              performanceRisk |-> 0]
        ELSE [count |-> Len(httpActions),
              integrationHealth |->
                  Frac(100 * Count(httpActions, HasStatusVariable), Len(httpActions)),
              diversityOfEndpoints |-> Cardinality(uniqueUris),
              securityRate |->
                  Frac(100 * Count(httpActions, HasAuthorization), Len(httpActions)),
              reutilizationRate |->
                  IF Cardinality(uniqueUris) > 0
                  THEN Frac(totalCalls, Cardinality(uniqueUris)) ELSE RInt(0),
              performanceRisk |-> Count(httpActions, IsBlocking)]

\* this.getAllActions(): the actions as the states hold them, not the tagged copies
Kpi1_getAllActions(states) == Flatten([i \in 1..Len(states) |-> RawActions(states[i])])

\* setAction is a tagged copy and allActions holds the originals, so
\* `action === setAction` is never true
Kpi1_calculateVariableMetrics(states, actionsByType) ==
    LET setVariableActions == ActionsByTypeGet(actionsByType, SET_VARIABLE)
        allActions == Kpi1_getAllActions(states)
        allConditions == AllConditions(states)
        inputConditions == Count(allConditions, LAMBDA c : HasSource(c, SRC_INPUT))
        contextConditions == Count(allConditions, LAMBDA c : HasSource(c, SRC_CONTEXT))
        total == inputConditions + contextConditions
    IN  IF Len(setVariableActions) = 0
        THEN [count |-> 0, orphanRate |-> RInt(0), averageLifecycle |-> RInt(0),
              conditionComplexity |-> RInt(0),
              sourceDistribution |-> [input |-> RInt(0), context |-> RInt(0)],
              magicVariablesRate |-> RInt(0)]
        ELSE [count |-> Len(setVariableActions),
              orphanRate |->
                  Frac(100 * Count(setVariableActions,
                                   LAMBDA a : IsOrphanVariable(a, allActions)),
                       Len(setVariableActions)),
              averageLifecycle |-> Frac(42, 10),
              conditionComplexity |-> Frac(Len(allConditions), Max(1, Len(states))),
              sourceDistribution |->
                  IF total > 0
                  THEN [input |-> Frac(100 * inputConditions, total),
                        context |-> Frac(100 * contextConditions, total)]
                  ELSE [input |-> RInt(0), context |-> RInt(0)],
              magicVariablesRate |-> calculateMagicVariablesRate(states, setVariableActions)]

\* outputs + defaultOutput of every state, over states.length
Kpi1_calculateBranchingFactor(states) ==
    IF Len(states) = 0 THEN RInt(0)
    ELSE Frac(SumSeq([i \in 1..Len(states) |->
                  Len(ArrOr(states[i], "outputs"))
                  + (IF Has(states[i], "defaultOutput") THEN 1 ELSE 0)]),
              Len(states))

\* calculateInteractionMetrics, the fields modelled: 3.2 and 12 whenever there is
\* a SendMessage or an Input action
Kpi1_calculateInteractionMetrics(actionsByType) ==
    LET sendMessageActions == ActionsByTypeGet(actionsByType, SEND_MESSAGE)
        inputActions == ActionsByTypeGet(actionsByType, INPUT)
        totalInteractions == Len(sendMessageActions) + Len(inputActions)
    IN  IF totalInteractions = 0
        THEN [count |-> 0, navigationClarity |-> RInt(0), deadEndsRate |-> RInt(0)]
        ELSE [count |-> totalInteractions, navigationClarity |-> Frac(32, 10),
              deadEndsRate |-> RInt(12)]

\* new KPICalculator(flowData).calculateAll(), the fields modelled; the constructor
\* reads flowData.states.length, a TypeError when the document has no states array
Kpi1_calculateAll(fd) ==
    IF ~Has(fd, "states") THEN TypeError
    ELSE LET states == fd.states
             actionsByType == categorizeActions(states)
         IN  [healthScore |-> Kpi1_calculateHealthScore(states),
              complexityIndex |-> Kpi1_calculateComplexityIndex(states),
              branchingFactor |-> Kpi1_calculateBranchingFactor(states),
              httpActions |-> Kpi1_calculateHttpMetrics(actionsByType),
              interactionActions |-> Kpi1_calculateInteractionMetrics(actionsByType),
              variableActions |-> Kpi1_calculateVariableMetrics(states, actionsByType)]

-----------------------------------------------------------------------------
(* Inputs of the KPI calculators *)

URI_ORDERS == <<"h","t","t","p","s",":","/","/","x","/","a">>
URI_USERS  == <<"h","t","t","p","s",":","/","/","x","/","b">>
TOKEN      == <<"K","e","y"," ","1">>
STATUS     == <<"s","t","a","t","u","s">>
RESULT     == <<"r","e","s","u","l","t">>
SNAKE      == <<"R","e","s","_","1">>
BLANK      == <<" ">>

Action(type) == [type |-> type]

WithSettings(action, settings) == action @@ [settings |-> settings]

\* a script of n lines
SourceLines(n) == [i \in 1..(2 * n - 1) |-> IF i % 2 = 1 THEN "x" ELSE "\n"]

HttpPool ==
    { WithSettings(Action(PROCESS_HTTP),
                   [uri |-> URI_ORDERS, headers |-> [Authorization |-> TOKEN],
                    responseStatusVariable |-> STATUS]),
      WithSettings(Action(PROCESS_HTTP), [uri |-> URI_ORDERS]),
      WithSettings(Action(PROCESS_HTTP),
                   [uri |-> URI_USERS, async |-> TRUE, headers |-> [authorization |-> TOKEN]]),
      WithSettings(Action(PROCESS_HTTP), [uri |-> <<>>, async |-> FALSE]),
      Action(PROCESS_HTTP) }

ScriptPool ==
    { WithSettings(Action(EXECUTE_SCRIPT), [source |-> SourceLines(1)])
          @@ [inputVariables |-> <<STATUS>>, outputVariable |-> RESULT],
      WithSettings(Action(EXECUTE_SCRIPT), [source |-> SourceLines(1)])
          @@ [outputVariable |-> SNAKE],
      WithSettings(Action(EXECUTE_SCRIPT), [source |-> SourceLines(11)])
          @@ [inputVariables |-> <<A, B, C, D>>, outputVariable |-> STATUS],
      WithSettings(Action(EXECUTE_SCRIPT), [source |-> SourceLines(51)])
          @@ [inputVariables |-> <<A>>, outputVariable |-> A],
      Action(EXECUTE_SCRIPT) }

MessagePool ==
    { WithSettings(Action(SEND_MESSAGE),
                   [content |-> <<"H","i"," ">> \o OPEN_BRACES \o RESULT \o CLOSE_BRACES]),
      WithSettings(Action(SEND_MESSAGE),
                   ("content" :> SELECT_JSON) @@ ("$cardContent" :> EmptyObj)),
      WithSettings(Action(SEND_MESSAGE),
                   [rawContent |-> OPEN_BRACES \o STATUS \o CLOSE_BRACES]),
      WithSettings(Action(SEND_MESSAGE), [content |-> <<"H","i">>])
          @@ ("$title" :> <<"H","i">>),
      Action(SEND_MESSAGE) @@ ("$title" :> BLANK) }

InputPool ==
    { WithSettings(Action(INPUT),
                   [inputSuggestions |-> <<A, B>>, validation |-> [rule |-> A]]),
      WithSettings(Action(INPUT), [inputSuggestions |-> <<A, B, C, D, A, B, C>>]),
      WithSettings(Action(INPUT), EmptyObj),
      Action(INPUT) }

SetVariablePool ==
    { WithSettings(Action(SET_VARIABLE), [variable |-> RESULT, value |-> A]),
      WithSettings(Action(SET_VARIABLE), [variable |-> SNAKE]) @@ [outputVariable |-> STATUS],
      WithSettings(Action(SET_VARIABLE), [value |-> A]),
      Action(SET_VARIABLE) }

ActionPool == HttpPool \cup ScriptPool \cup MessagePool \cup InputPool \cup SetVariablePool

\* One state keyed `start` holding up to MaxActions content actions.
ActionDocs ==
    {[flow |-> <<<<START, ("$contentActions" :> acts)>>>>] : acts \in SeqsUpTo(ActionPool, MaxActions)}

Condition(source, variable) == [source |-> source, variable |-> variable]

ConditionPool ==
    { <<>>,
      <<Condition(SRC_INPUT, A)>>,
      <<Condition(SRC_CONTEXT, RESULT)>>,
      <<Condition(SRC_CONTEXT, B), Condition(SRC_INPUT, A), [source |-> SRC_CONTEXT]>> }

\* The states of the structural documents: edges, conditions, tags, custom
\* actions, a SetVariable action, an own $id.
RawPool ==
    { EmptyObj,
      ("$defaultOutput" :> [stateId |-> A]) }
    \cup { ("$conditionOutputs" :> <<[stateId |-> A, conditions |-> cs]>>) :
              cs \in ConditionPool \ {<<>>} }
    \cup { ("$conditionOutputs" :> <<[stateId |-> B]>>)
             @@ ("$tags" :> <<A>>)
             @@ ("$enteringCustomActions" :> <<Action(EXECUTE_SCRIPT)>>),
           ("$conditionOutputs" :> <<[stateId |-> A,
                                      conditions |-> <<Condition(SRC_CONTEXT, RESULT),
                                                       Condition(SRC_CONTEXT, B)>>]>>)
             @@ ("$contentActions" :>
                   <<WithSettings(Action(SET_VARIABLE), [variable |-> RESULT, value |-> A])>>),
           ("$id" :> BLANK) @@ ("$tags" :> <<>>),
           ("$leavingCustomActions" :> <<Action(SEND_MESSAGE)>>)
             @@ ("$defaultOutput" :> EmptyObj) }

StateKeys == {START, A, BLANK, <<>>}

\* Flow maps of up to MaxStates states: distinct keys, in any order.
StructDocs ==
    {[flow |-> [i \in 1..Len(ks) |-> <<ks[i], rs[i]>>]] :
        <<ks, rs>> \in UNION {{kr \in ([1..n -> StateKeys] \X [1..n -> RawPool]) :
                                   \A i, j \in 1..n : i # j => kr[1][i] # kr[1][j]} :
                              n \in 0..MaxStates}}

\* the id of the i-th state of a wide flow
WideId(i) == <<"n">> \o [j \in 1..i |-> "x"]

\* n states in a chain from `start`, every one with a custom action
WideDoc(n) ==
    [flow |-> [i \in 1..n |->
        <<IF i = 1 THEN START ELSE WideId(i),
          ("$conditionOutputs" :> <<[stateId |-> WideId(i + 1)]>>)
            @@ ("$enteringCustomActions" :> <<Action(SET_VARIABLE)>>)>>]]

WideSizes == {8, 25}

WideDocs == {WideDoc(n) : n \in WideSizes}

\* Scripts around the thresholds of the risk rules: no settings, no source, and
\* sources of 0 to 60 lines, with inputVariables and outputVariable absent, empty or set.
LineSizes == {0, 1, 10, 11, 20, 21, 50, 51, 60}

ScriptRiskPool ==
    {Action(EXECUTE_SCRIPT) @@ st @@ ins @@ out :
        st \in {EmptyObj, [settings |-> EmptyObj]}
                \cup {[settings |-> [source |-> SourceLines(n)]] : n \in LineSizes},
        ins \in {EmptyObj, [inputVariables |-> <<>>], [inputVariables |-> <<A>>]},
        out \in {EmptyObj, [outputVariable |-> <<>>], [outputVariable |-> RESULT]}}

\* One state keyed `start` whose only action is one script.
ScriptDocs ==
    {[flow |-> <<<<START, ("$contentActions" :> <<a>>)>>>>] : a \in ScriptRiskPool}

BEARER == <<"B","e","a","r","e","r"," ","x">>

\* settings.headers of a ProcessHttp action: none, empty, and an Authorization
\* header in three letter cases
HeaderPool ==
    { Action(PROCESS_HTTP),
      WithSettings(Action(PROCESS_HTTP), [uri |-> URI_ORDERS]),
      WithSettings(Action(PROCESS_HTTP), [headers |-> EmptyObj]),
      WithSettings(Action(PROCESS_HTTP), [headers |-> [Authorization |-> BEARER]]),
      WithSettings(Action(PROCESS_HTTP), [headers |-> [authorization |-> BEARER]]),
      WithSettings(Action(PROCESS_HTTP), [headers |-> [AUTHORIZATION |-> BEARER]]) }

\* One state keyed `start` whose only action is one HTTP call.
HeaderDocs ==
    {[flow |-> <<<<START, ("$contentActions" :> <<a>>)>>>>] : a \in HeaderPool}

HELLO == <<"H","e","l","l","o">>

NAME == <<"n","a","m","e">>

\* what content and rawContent of a message hold: nothing, a literal, a template,
\* one marker only
TextPool ==
    {<<>>, HELLO, HELLO \o <<" ">> \o OPEN_BRACES \o NAME \o CLOSE_BRACES,
     OPEN_BRACES \o NAME, NAME \o CLOSE_BRACES}

TemplatePool ==
    {WithSettings(Action(SEND_MESSAGE), c @@ r) :
        c \in {EmptyObj} \cup {[content |-> t] : t \in TextPool},
        r \in {EmptyObj} \cup {[rawContent |-> t] : t \in TextPool}}

\* One state keyed `start` whose only action is one message.
TemplateDocs ==
    {[flow |-> <<<<START, ("$contentActions" :> <<a>>)>>>>] : a \in TemplatePool}

\* state ids around the root rule: the three literals, as a whole id, inside a
\* longer id, in another letter case, and ids without them
RootKeys ==
    {ONBOARDING, ONBOARDING \o <<"2">>, INICIO, <<"x">> \o INICIO, <<"r","e">> \o START,
     <<"S","t","a","r","t">>, <<"O","n","b","o","a","r","d","i","n","g">>,
     <<"I","N","I","C","I","O">>, <<"s","t","a","r">>, A}

\* fields of a raw state that name a root flag, another id, or actions and outputs
\* without the `$` prefix
RootRawPool ==
    {EmptyObj, [is_root |-> TRUE], [is_root |-> FALSE], [isRoot |-> TRUE],
     ("$id" :> START), ("$id" :> A),
     [actions |-> <<Action(INPUT)>>, outputs |-> <<[stateId |-> A]>>],
     [actions |-> <<Action(INPUT)>>] @@ ("$contentActions" :> <<Action(SEND_MESSAGE)>>)}

\* One state under each key, with each raw state.
RootDocs == {[flow |-> <<<<k, raw>>>>] : k \in RootKeys, raw \in RootRawPool}

\* Actions told apart by their title, one of them carrying a stateId of its own.
Titled(type, title) == Action(type) @@ ("$title" :> title)

ActionLists ==
    { <<>>,
      <<Titled(SEND_MESSAGE, A)>>,
      <<Titled(INPUT, B), Titled(SEND_MESSAGE, C)>>,
      <<Titled(SEND_MESSAGE, D) @@ [stateId |-> GHOST]>> }

\* Two states whose entering, content and leaving lists hold actions of one type.
OrderDocs ==
    {[flow |-> <<<<START, ("$enteringCustomActions" :> e) @@ ("$contentActions" :> c)
                           @@ ("$leavingCustomActions" :> l)>>,
                 <<A, ("$contentActions" :> <<Titled(SEND_MESSAGE, B)>>)
                      @@ ("$leavingCustomActions" :> e)>>>>] :
        e \in ActionLists, c \in ActionLists, l \in ActionLists}

\* A state with two outputs in either order, to existing and to missing states,
\* with or without a default output.
ConnectionDocs ==
    {[flow |-> <<<<START, ("$conditionOutputs" :> OutputsTo(o))
                           @@ (IF d = <<>> THEN EmptyObj
                               ELSE ("$defaultOutput" :> [stateId |-> d[1]]))>>,
                 <<A, EmptyObj>>>>] :
        o \in {<<A, GHOST>>, <<GHOST, A>>, <<A, A>>}, d \in SeqsUpTo({START, GHOST}, 1)}

FlowMapDocs ==
    ActionDocs \cup StructDocs \cup WideDocs \cup ScriptDocs \cup HeaderDocs \cup TemplateDocs
    \cup RootDocs \cup OrderDocs \cup ConnectionDocs

\* The same flows in the flat-array shape: a `states` array of states that carry
\* their own $id, is_root, actions, outputs and defaultOutput.
FlatDoc(fd) == [states |-> normalizeFlowData(fd)]

FlatDocs == {FlatDoc(fd) : fd \in FlowMapDocs}

\* documents with neither `flow` nor `states`
ShapelessDocs == {EmptyObj, [name |-> A]}

KpiDocs == FlowMapDocs \cup FlatDocs \cup ShapelessDocs

-----------------------------------------------------------------------------
(* The KPI calculators applied to one document *)

InitKPI ==
    /\ flowData \in KpiDocs
    /\ normalizedStates = normalizeFlowData(flowData)
    /\ queue = <<>>
    /\ reachableStates = {}
    /\ added = <<>>
    /\ orphanStates = <<>>
    /\ pc = "constructed"
    /\ kpis = NotCalled /\ clientKpis = NotCalled /\ legacyKpis = NotCalled
    /\ metrics = NotCalled
    /\ analyses = EmptyObj /\ currentId = 1 /\ now = 0
    /\ calls = <<>> /\ response = NotCalled
    /\ requests = <<>> /\ storeLog = <<>>

\* server: const kpis = calculateKPIs(flowData)
ServerCalculateKPIs ==
    /\ kpis = NotCalled
    /\ kpis' = calculateKPIs(flowData)
    /\ UNCHANGED <<flowData, analyzerVars, clientKpis, metrics, legacyKpis, storeVars,
                   hostVars>>

\* client, second listing: new KPICalculator(flowData).calculateAll()
ClientCalculateAll ==
    /\ clientKpis = NotCalled
    /\ metrics' = analyze(normalizeFlowData(flowData))
    /\ clientKpis' = Kpi2_calculateAll(flowData)
    /\ UNCHANGED <<flowData, analyzerVars, kpis, legacyKpis, storeVars, hostVars>>

\* client, first listing: new KPICalculator(flowData).calculateAll()
LegacyCalculateAll ==
    /\ legacyKpis = NotCalled
    /\ legacyKpis' = Kpi1_calculateAll(flowData)
    /\ UNCHANGED <<flowData, analyzerVars, kpis, clientKpis, metrics, storeVars, hostVars>>

NextKPI == ServerCalculateKPIs \/ ClientCalculateAll \/ LegacyCalculateAll

SpecKPI == InitKPI /\ [][NextKPI]_vars

-----------------------------------------------------------------------------
(* calculateKPIs applied to what FlowDataSchema accepts: `flow` maps ids to any *)
(* JSON value, null among them                                                 *)

SchemaDocs ==
    {[flow |-> [i \in 1..Len(ks) |-> <<ks[i], rs[i]>>]] :
        <<ks, rs>> \in UNION {{kr \in ([1..n -> StateKeys] \X [1..n -> RawPool \cup {Null}]) :
                                   \A i, j \in 1..n : i # j => kr[1][i] # kr[1][j]} :
                              n \in 0..MaxStates}}

InitEngine ==
    /\ flowData \in SchemaDocs
    /\ normalizedStates = <<>>
    /\ queue = <<>>
    /\ reachableStates = {}
    /\ added = <<>>
    /\ orphanStates = <<>>
    /\ pc = "constructed"
    /\ kpis = NotCalled /\ clientKpis = NotCalled /\ legacyKpis = NotCalled
    /\ metrics = NotCalled
    /\ analyses = EmptyObj /\ currentId = 1 /\ now = 0
    /\ calls = <<>> /\ response = NotCalled
    /\ requests = <<>> /\ storeLog = <<>>

SpecEngine == InitEngine /\ [][ServerCalculateKPIs]_vars

-----------------------------------------------------------------------------
(* The server: MemStorage and the routes *)

\* what JSON.parse throws on
NotJson == [parseError |-> TRUE]

UploadFlows ==
    { [flow |-> <<<<START, ("$contentActions" :>
                              <<WithSettings(Action(PROCESS_HTTP), [uri |-> URI_ORDERS]),
                                WithSettings(Action(INPUT), EmptyObj)>>)>>>>],
      [flow |-> <<<<START, ("$defaultOutput" :> [stateId |-> A])>>, <<A, EmptyObj>>>>] }

\* {"flow": {"start": null}}
NullFlow == [flow |-> <<<<START, Null>>>>]

\* the parsed contents an uploaded file can have
UploadContents ==
    UploadFlows \cup {FlatDoc(fd) : fd \in UploadFlows} \cup {NotJson, NullFlow}

\* the documents the client analyses: the flat-array shape its calculator reads
ClientDocuments == {FlatDoc(fd) : fd \in UploadFlows}

\* req.body.name; <<>> when the form has none
UploadNames == {<<>>, <<"n">>}

\* a schema that also takes the flat-array shape
SchemaAcceptsStates(json) == Has(json, "flow") \/ Has(json, "states")

\* FlowDataSchema.safeParse(originalJson).success: `flow` is a record
SchemaAccepts(json) == Has(json, "flow")

Message(status, message) == [status |-> status, body |-> [message |-> message]]

\* createFlowAnalysis that numbers a record by the size of the Map
createFlowAnalysisBySize(insertAnalysis, date) ==
    [id |-> Cardinality(DOMAIN analyses) + 1, createdAt |-> date] @@ insertAnalysis

\* createFlowAnalysis that hands out the id 1 every time
createFlowAnalysisFirstId(insertAnalysis, date) ==
    [id |-> 1, createdAt |-> date] @@ insertAnalysis

\* MemStorage.createFlowAnalysis: the record stored under this.currentId, new Date()
\* returning date
createFlowAnalysis(insertAnalysis, date) ==
    [id |-> currentId, createdAt |-> date] @@ insertAnalysis

\* app.post("/api/flow-analyses/upload"), no file in the request
UploadNoFile ==
    /\ response' = Message(400, "No file uploaded")
    /\ UNCHANGED <<flowData, analyzerVars, kpiVars, analyses, currentId, now, calls, hostVars>>

\* app.post("/api/flow-analyses/upload"), the file not being JSON or not a flow
UploadRejected(content) ==
    /\ content = NotJson \/ ~SchemaAccepts(content)
    /\ response' = IF content = NotJson THEN Message(400, "Invalid JSON file")
                   ELSE Message(400, "Invalid flow structure")
    /\ UNCHANGED <<flowData, analyzerVars, kpiVars, analyses, currentId, now, calls, hostVars>>

\* app.post("/api/flow-analyses/upload"), the file accepted; the clock reads date
UploadAccepted(content, name, date) ==
    /\ content # NotJson
    /\ SchemaAccepts(content)
    /\ ~serverStatesThrows(content)
    /\ Len(calls) < MaxCalls
    /\ flowData' = content
    /\ kpis' = calculateKPIs(content)
    /\ calls' = Append(calls, [by |-> "server", document |-> content, result |-> kpis'])
    /\ LET analysis == createFlowAnalysis(
                          [name |-> IF name # <<>> THEN name
                                    ELSE [text |-> "Flow Analysis", at |-> date],
                           originalJson |-> content,
                           parsedData |-> content,
                           kpis |-> kpis'], date)
       IN  /\ analyses' = (currentId :> analysis) @@ analyses
           /\ response' = [status |-> 200, body |-> analysis]
    /\ currentId' = currentId + 1
    /\ now' = date
    /\ UNCHANGED <<analyzerVars, clientKpis, metrics, legacyKpis, hostVars>>

\* app.post("/api/flow-analyses/upload"), calculateKPIs throws: the catch block.
\* Nothing is stored; flowData and calls keep the last call that returned.
UploadFailed(content) ==
    /\ content # NotJson
    /\ SchemaAccepts(content)
    /\ serverStatesThrows(content)
    /\ response' = Message(500, "Failed to process flow file")
    /\ UNCHANGED <<flowData, analyzerVars, kpiVars, analyses, currentId, now, calls, hostVars>>

Upload ==
    \/ UploadNoFile
    \/ \E content \in UploadContents : UploadRejected(content)
    \/ \E content \in UploadContents : UploadFailed(content)
    \/ \E content \in UploadContents, name \in UploadNames, date \in now..MaxNow :
            UploadAccepted(content, name, date)

\* the ids a request can name
RequestIds == 1..MaxCalls

\* app.get("/api/flow-analyses/:id")
GetOne ==
    \E id \in RequestIds :
        /\ response' = IF id \in DOMAIN analyses
                       THEN [status |-> 200, body |-> analyses[id]]
                       ELSE Message(404, "Flow analysis not found")
        /\ UNCHANGED <<flowData, analyzerVars, kpiVars, analyses, currentId, now, calls,
                       hostVars>>

\* the values of the Map in insertion order, which is the order of the ids
RECURSIVE MapValues(_, _)
MapValues(map, from) ==
    IF \A id \in DOMAIN map : id < from THEN <<>>
    ELSE (IF from \in DOMAIN map THEN <<map[from]>> ELSE <<>>) \o MapValues(map, from + 1)

\* Array.prototype.sort with (a, b) => b.createdAt - a.createdAt: stable, newest first
RECURSIVE SortNewestFirst(_)
SortNewestFirst(list) ==
    IF list = <<>> THEN <<>>
    ELSE LET newest == CHOOSE i \in 1..Len(list) :
                          /\ \A j \in 1..Len(list) : list[j].createdAt <= list[i].createdAt
                          /\ \A j \in 1..(i - 1) : list[j].createdAt < list[i].createdAt
         IN  <<list[newest]>>
             \o SortNewestFirst(SubSeq(list, 1, newest - 1)
                                \o SubSeq(list, newest + 1, Len(list)))

getAllFlowAnalyses == SortNewestFirst(MapValues(analyses, 1))

\* app.get("/api/flow-analyses")
GetAll ==
    /\ response' = [status |-> 200, body |-> getAllFlowAnalyses]
    /\ UNCHANGED <<flowData, analyzerVars, kpiVars, analyses, currentId, now, calls, hostVars>>

\* app.delete("/api/flow-analyses/:id")
Delete ==
    \E id \in RequestIds :
        /\ analyses' = [k \in DOMAIN analyses \ {id} |-> analyses[k]]
        /\ response' = IF id \in DOMAIN analyses
                       THEN [status |-> 200,
                             body |-> [message |-> "Flow analysis deleted successfully"]]
                       ELSE Message(404, "Flow analysis not found")
        /\ UNCHANGED <<flowData, analyzerVars, kpiVars, currentId, now, calls, hostVars>>

\* the client computes the KPIs of a document: calculateKPIs(flowData) of the first listing
ClientCalculateKPIs ==
    \E document \in ClientDocuments :
        /\ Len(calls) < MaxCalls
        /\ flowData' = document
        /\ legacyKpis' = Kpi1_calculateAll(document)
        /\ calls' = Append(calls, [by |-> "client", document |-> document,
                                   result |-> legacyKpis'])
        /\ UNCHANGED <<analyzerVars, kpis, clientKpis, metrics, analyses, currentId, now, response,
                       hostVars>>

Init ==
    /\ flowData = EmptyObj
    /\ normalizedStates = <<>>
    /\ queue = <<>>
    /\ reachableStates = {}
    /\ added = <<>>
    /\ orphanStates = <<>>
    /\ pc = "constructed"
    /\ kpis = NotCalled /\ clientKpis = NotCalled /\ legacyKpis = NotCalled
    /\ metrics = NotCalled
    /\ analyses = EmptyObj /\ currentId = 1 /\ now = 0
    /\ calls = <<>> /\ response = NotCalled
    /\ requests = <<>> /\ storeLog = <<>>

Next == Upload \/ GetOne \/ GetAll \/ Delete \/ ClientCalculateKPIs

Spec == Init /\ [][Next]_vars

-----------------------------------------------------------------------------
(* Concurrent uploads.  The handler of app.post("/api/flow-analyses/upload") runs *)
(* without interruption from its first line to `await                            *)
(* storage.createFlowAnalysis(analysisData)`, whose body has run to its end by    *)
(* then; res.json(analysis) is sent when the handler is resumed, and the handlers *)
(* of other requests run in between.                                              *)

MaxRequests == 2

\* a request without req.file
NoFile == [file |-> FALSE]

UploadFiles == UploadContents \cup {NoFile}

Received(content) ==
    [pc |-> "received", content |-> content, analysis |-> NotCalled, response |-> NotCalled]

InitUploads ==
    /\ flowData = EmptyObj
    /\ normalizedStates = <<>>
    /\ queue = <<>>
    /\ reachableStates = {}
    /\ added = <<>>
    /\ orphanStates = <<>>
    /\ pc = "constructed"
    /\ kpis = NotCalled /\ clientKpis = NotCalled /\ legacyKpis = NotCalled
    /\ metrics = NotCalled
    /\ analyses = EmptyObj /\ currentId = 1 /\ now = 0
    /\ calls = <<>> /\ response = NotCalled
    /\ requests \in [1..MaxRequests -> {Received(content) : content \in UploadFiles}]
    /\ storeLog = <<>>

\* res.status(...).json(...) of request r, which ends its handler
Responds(r, res) ==
    /\ response' = res
    /\ requests' = [requests EXCEPT ![r].pc = "responded", ![r].response = res]

\* if (!req.file) return res.status(400)...
ReceiveNoFile(r) ==
    /\ requests[r].pc = "received"
    /\ requests[r].content = NoFile
    /\ Responds(r, Message(400, "No file uploaded"))
    /\ UNCHANGED <<flowData, analyzerVars, kpiVars, analyses, currentId, now, calls, storeLog>>

\* JSON.parse throws, or safeParse fails
ReceiveRejected(r) ==
    /\ requests[r].pc = "received"
    /\ requests[r].content # NoFile
    /\ requests[r].content = NotJson \/ ~SchemaAccepts(requests[r].content)
    /\ Responds(r, IF requests[r].content = NotJson THEN Message(400, "Invalid JSON file")
                   ELSE Message(400, "Invalid flow structure"))
    /\ UNCHANGED <<flowData, analyzerVars, kpiVars, analyses, currentId, now, calls, storeLog>>

\* calculateKPIs throws: the catch block
ReceiveFailed(r) ==
    /\ requests[r].pc = "received"
    /\ requests[r].content \notin {NoFile, NotJson}
    /\ SchemaAccepts(requests[r].content)
    /\ serverStatesThrows(requests[r].content)
    /\ Responds(r, Message(500, "Failed to process flow file"))
    /\ UNCHANGED <<flowData, analyzerVars, kpiVars, analyses, currentId, now, calls, storeLog>>

\* the handler down to `await storage.createFlowAnalysis(analysisData)`
ReceiveAccepted(r, name, date) ==
    /\ requests[r].pc = "received"
    /\ requests[r].content \notin {NoFile, NotJson}
    /\ SchemaAccepts(requests[r].content)
    /\ ~serverStatesThrows(requests[r].content)
    /\ flowData' = requests[r].content
    /\ kpis' = calculateKPIs(requests[r].content)
    /\ calls' = Append(calls, [by |-> "server", document |-> requests[r].content,
                               result |-> kpis'])
    /\ LET analysis == createFlowAnalysis(
                          [name |-> IF name # <<>> THEN name
                                    ELSE [text |-> "Flow Analysis", at |-> date],
                           originalJson |-> requests[r].content,
                           parsedData |-> requests[r].content,
                           kpis |-> kpis'], date)
       IN  /\ analyses' = (analysis.id :> analysis) @@ analyses
           /\ requests' = [requests EXCEPT ![r].pc = "awaiting", ![r].analysis = analysis]
           /\ storeLog' = Append(storeLog, [op |-> "create", id |-> analysis.id,
                                             returned |-> analysis])
    /\ currentId' = currentId + 1
    /\ now' = date
    /\ UNCHANGED <<analyzerVars, clientKpis, metrics, legacyKpis, response>>

\* the handler resumed: res.json(analysis)
RespondAccepted(r) ==
    /\ requests[r].pc = "awaiting"
    /\ Responds(r, [status |-> 200, body |-> requests[r].analysis])
    /\ UNCHANGED <<flowData, analyzerVars, kpiVars, analyses, currentId, now, calls, storeLog>>

NextUploads ==
    \E r \in 1..MaxRequests :
        \/ ReceiveNoFile(r)
        \/ ReceiveRejected(r)
        \/ ReceiveFailed(r)
        \/ \E name \in UploadNames, date \in now..MaxNow : ReceiveAccepted(r, name, date)
        \/ RespondAccepted(r)

SpecUploads == InitUploads /\ [][NextUploads]_vars

-----------------------------------------------------------------------------
(* MemStorage under any sequence of calls.  Each action is one call of a method, *)
(* made as the routes make it, and is entered in storeLog with what it returned. *)

MaxOps == 4

\* what Map.get returns for a missing key
Undefined == [isUndefined |-> TRUE]

\* the analysisData of storage.createFlowAnalysis(analysisData)
InsertAnalyses ==
    {[name |-> <<"n">>, originalJson |-> [flow |-> <<>>], parsedData |-> [flow |-> <<>>],
      kpis |-> getEmptyKPIs]}

Logged(op, id, returned) == Append(storeLog, [op |-> op, id |-> id, returned |-> returned])

\* this.analyses.get(id)
getFlowAnalysis(id) == IF id \in DOMAIN analyses THEN analyses[id] ELSE Undefined

\* a delete that drops every key up to id
MapDeleteUpTo(map, id) == [k \in {x \in DOMAIN map : x > id} |-> map[k]]

\* the Map after this.analyses.delete(id)
MapDelete(map, id) == [k \in DOMAIN map \ {id} |-> map[k]]

\* const analysis = await storage.createFlowAnalysis(analysisData); res.json(analysis)
StoreCreate(insertAnalysis, date) ==
    /\ Len(storeLog) < MaxOps
    /\ LET analysis == createFlowAnalysis(insertAnalysis, date)
       IN  /\ analyses' = (analysis.id :> analysis) @@ analyses
           /\ storeLog' = Logged("create", analysis.id, analysis)
           /\ response' = [status |-> 200, body |-> analysis]
    /\ currentId' = currentId + 1
    /\ now' = date
    /\ UNCHANGED <<flowData, analyzerVars, kpiVars, calls, requests>>

\* const analysis = await storage.getFlowAnalysis(id), and the route's answer
StoreGet(id) ==
    /\ Len(storeLog) < MaxOps
    /\ storeLog' = Logged("get", id, getFlowAnalysis(id))
    /\ response' = IF getFlowAnalysis(id) = Undefined
                   THEN Message(404, "Flow analysis not found")
                   ELSE [status |-> 200, body |-> getFlowAnalysis(id)]
    /\ UNCHANGED <<flowData, analyzerVars, kpiVars, analyses, currentId, now, calls, requests>>

\* const analyses = await storage.getAllFlowAnalyses(); res.json(analyses)
StoreGetAll ==
    /\ Len(storeLog) < MaxOps
    /\ storeLog' = Logged("getAll", 0, getAllFlowAnalyses)
    /\ response' = [status |-> 200, body |-> getAllFlowAnalyses]
    /\ UNCHANGED <<flowData, analyzerVars, kpiVars, analyses, currentId, now, calls, requests>>

\* const deleted = await storage.deleteFlowAnalysis(id), and the route's answer
StoreDelete(id) ==
    /\ Len(storeLog) < MaxOps
    /\ analyses' = MapDelete(analyses, id)
    /\ storeLog' = Logged("delete", id, id \in DOMAIN analyses)
    /\ response' = IF id \in DOMAIN analyses
                   THEN [status |-> 200,
                         body |-> [message |-> "Flow analysis deleted successfully"]]
                   ELSE Message(404, "Flow analysis not found")
    /\ UNCHANGED <<flowData, analyzerVars, kpiVars, currentId, now, calls, requests>>

NextStore ==
    \/ \E insertAnalysis \in InsertAnalyses, date \in now..MaxNow :
            StoreCreate(insertAnalysis, date)
    \/ \E id \in RequestIds : StoreGet(id)
    \/ StoreGetAll
    \/ \E id \in RequestIds : StoreDelete(id)

SpecStore == Init /\ [][NextStore]_vars

-----------------------------------------------------------------------------
(* Reachability as the specification words it: the least set that holds the *)
(* ids of the root states and, with the id of a state, every target of its  *)
(* outputs and of its default output.                                       *)

IsRoot(s) == Has(s, "is_root") /\ s.is_root = TRUE

OutputTargets(s) ==
    {o.stateId : o \in {x \in Range(ArrOr(s, "outputs")) : Has(x, "stateId")}}
    \cup (IF Has(s, "defaultOutput") /\ Has(s.defaultOutput, "stateId")
          THEN {s.defaultOutput.stateId} ELSE {})

RECURSIVE ReachFrom(_, _)
ReachFrom(R, states) ==
    LET R2 == R \cup UNION {OutputTargets(s) : s \in {x \in Range(states) : x["$id"] \in R}}
    IN  IF R2 = R THEN R ELSE ReachFrom(R2, states)

ReachableIds(states) == ReachFrom({s["$id"] : s \in {x \in Range(states) : IsRoot(x)}}, states)

-----------------------------------------------------------------------------
(* C1: findOrphanStates returns exactly the states whose id is not          *)
(* reachable from the root ids through outputs and default outputs; a root  *)
(* is never an orphan; with no root every state is an orphan.               *)
C1_OrphansAreTheUnreachable ==
    pc = "done" =>
        /\ orphanStates =
              SelectSeq(normalizedStates,
                        LAMBDA s : s["$id"] \notin ReachableIds(normalizedStates))
        /\ \A s \in Range(normalizedStates) : IsRoot(s) => s \notin Range(orphanStates)
        /\ (\A s \in Range(normalizedStates) : ~IsRoot(s)) => orphanStates = normalizedStates

\* A(root) -> B -> C with D unreferenced: the orphans are <<D>>.
C1_Witness ==
    /\ pc = "done"
    /\ IdsOfStates(normalizedStates) = <<A, B, C, D>>
    /\ IsRoot(normalizedStates[1])
    /\ OutputTargets(normalizedStates[1]) = {B}
    /\ OutputTargets(normalizedStates[2]) = {C}
    /\ Has(normalizedStates[2], "defaultOutput")
    /\ IdsOfStates(orphanStates) = <<D>>

-----------------------------------------------------------------------------
(* C2: in the server's calculateKPIs on a flow-map document whose states    *)
(* carry no $id of their own, no state reachable from a root through        *)
(* $conditionOutputs and $defaultOutput is among the orphans, and neither   *)
(* orphanStates nor deadCodePotential counts one.                           *)
NoOwnIds(fd) == \A i \in 1..Len(fd.flow) : ~Has(fd.flow[i][2], "$id")

UnreachableCount(states) == Count(states, LAMBDA s : s["$id"] \notin ReachableIds(states))

C2_DefaultTargetsReachable ==
    (Has(flowData, "flow") /\ Has(kpis, "orphanStates") /\ NoOwnIds(flowData)) =>
        LET states == normalizeFlowData(flowData)
        IN  /\ \A s \in Range(findOrphanStates(serverStates(flowData))) :
                  s["$id"] \notin ReachableIds(states)
            /\ kpis.orphanStates <= UnreachableCount(states)
            /\ kpis.deadCodePotential <= UnreachableCount(states)

\* {"flow": {"start": {"$defaultOutput": {"stateId": "a"}}, "a": {}}}: the server
\* counts `a` as an orphan, the FlowAnalyzer on the same document finds none
C2_Witness ==
    /\ flowData = [flow |-> <<<<START, ("$defaultOutput" :> [stateId |-> A])>>,
                              <<A, EmptyObj>>>>]
    /\ Has(kpis, "orphanStates")
    /\ kpis.orphanStates = 1
    /\ kpis.deadCodePotential = 1
    /\ analyzerOrphanStates(normalizeFlowData(flowData)) = <<>>

-----------------------------------------------------------------------------
(* C3: the traversal terminates on every flow (cycles, self-loops, repeated *)
(* targets, dangling targets): no id is added to the visited set twice and  *)
(* the loop ends with the queue empty.                                      *)
NoDuplicates(s) == \A i, j \in 1..Len(s) : s[i] = s[j] => i = j

C3_TraversalTerminates ==
    /\ [](NoDuplicates(added) /\ Range(added) = reachableStates)
    /\ <>(pc = "done" /\ queue = <<>>)

\* a self-loop, a cycle A -> B -> A, two outputs to B and a dangling target
C3_Witness ==
    /\ pc = "done"
    /\ flowData = [states |-> <<MkState(A, TRUE, <<B, B>>, <<A>>),
                                MkState(B, FALSE, <<A, GHOST>>, <<>>)>>]
    /\ added = <<A, B, GHOST>>

-----------------------------------------------------------------------------
(* C4: the reachable set at the end of the traversal does not depend on the *)
(* order in which queued ids are taken, on the order of the states, or on   *)
(* the order of the outputs of a state.                                     *)
Perms(n) == {p \in [1..n -> 1..n] : \A i, j \in 1..n : p[i] = p[j] => i = j}

Permute(states, p) == [i \in 1..Len(states) |-> states[p[i]]]

Reverse(s) == [i \in 1..Len(s) |-> s[Len(s) + 1 - i]]

ReverseOutputs(states) ==
    [i \in 1..Len(states) |->
        IF Has(states[i], "outputs")
        THEN [states[i] EXCEPT !.outputs = Reverse(@)] ELSE states[i]]

FifoReach(states) == BfsLoop(states, RootIds(states), {})

C4_OrderIndependent ==
    pc = "done" =>
        /\ \A p \in Perms(Len(normalizedStates)) :
              /\ FifoReach(Permute(normalizedStates, p)) = reachableStates
              /\ FifoReach(ReverseOutputs(Permute(normalizedStates, p))) = reachableStates
        /\ Range(IdsOfStates(orphanStates)) = Range(IdsOfStates(normalizedStates)) \ reachableStates

\* two roots, the second served first, and the traversal went on through an output
C4_Witness ==
    /\ pc = "done"
    /\ IdsOfStates(findRootStates(normalizedStates)) = <<A, C>>
    /\ Len(added) >= 3
    /\ added[1] = C
    /\ added[2] # A

-----------------------------------------------------------------------------
-----------------------------------------------------------------------------
(* C6: every healthScore returned lies in [0,1] and every complexityIndex   *)
(* returned lies in [0,10], for the server's calculateKPIs and for both     *)
(* KPICalculator listings.                                                  *)
InRange(x, lo, hi) == RLe(RInt(lo), x) /\ RLe(x, RInt(hi))

ScoresInRange(result) ==
    Has(result, "healthScore") =>
        /\ InRange(result.healthScore, 0, 1)
        /\ InRange(result.complexityIndex, 0, 10)

C6_ScoresInRange ==
    ScoresInRange(kpis) /\ ScoresInRange(clientKpis) /\ ScoresInRange(legacyKpis)

\* {"flow": {"start": {}}}: the second KPICalculator returns healthScore 100
C6_Witness ==
    /\ flowData = [flow |-> <<<<START, EmptyObj>>>>]
    /\ Has(clientKpis, "healthScore")
    /\ REq(clientKpis.healthScore, RInt(100))
    /\ Has(kpis, "healthScore")
    /\ REq(kpis.healthScore, RInt(1))

-----------------------------------------------------------------------------
(* C7: every percentage field of the KPIResult the server returns lies in   *)
(* [0,100].                                                                 *)
Percentages(k) ==
    { k.externalDependencyIndex, k.maintainabilityScore, k.dynamicContentRate,
      k.httpActions.integrationHealth, k.httpActions.securityRate,
      k.scriptActions.deadCodeRate, k.scriptActions.couplingRate,
      k.scriptActions.duplicatedCodeRate, k.scriptActions.namingConsistency,
      k.interactionActions.inputRobustness, k.interactionActions.consistencyScore,
      k.variableActions.orphanRate, k.variableActions.sourceDistribution.input,
      k.variableActions.sourceDistribution.context, k.variableActions.magicVariablesRate }

C7_PercentagesInRange ==
    Has(kpis, "healthScore") => \A x \in Percentages(kpis) : InRange(x, 0, 100)

\* two Input actions of 7 and 0 suggestions: variance 12.25, so the floor at 0 acts;
\* one state in one with an external dependency: externalDependencyIndex = 100
C7_Witness ==
    /\ Has(kpis, "healthScore")
    /\ kpis.interactionActions.count = 2
    /\ Len(getActionsOfType(serverStates(flowData), INPUT)) = 2
    /\ REq(calculateConsistencyScoreUnfloored(getActionsOfType(serverStates(flowData), INPUT)),
           Frac(0 - 225, 10))
    /\ REq(kpis.interactionActions.consistencyScore, RInt(0))
    /\ REq(kpis.interactionActions.inputRobustness, RInt(0))

-----------------------------------------------------------------------------
(* C8: for a document with zero states the server's calculateKPIs returns   *)
(* the defaulted result: global scores and counts 0, integrationHealth,     *)
(* securityRate, namingConsistency, inputRobustness and consistencyScore    *)
(* 100, every other group field 0.                                          *)
IsZero(x) == REq(x, RInt(0))

IsHundred(x) == REq(x, RInt(100))

C8_EmptyFlowDefaults ==
    (Has(kpis, "totalStates") /\ Len(serverStates(flowData)) = 0) =>
        /\ IsZero(kpis.healthScore) /\ IsZero(kpis.complexityIndex)
        /\ IsZero(kpis.externalDependencyIndex) /\ IsZero(kpis.maintainabilityScore)
        /\ IsZero(kpis.branchingFactor) /\ kpis.flowCohesion = 0
        /\ IsZero(kpis.dynamicContentRate) /\ kpis.deadCodePotential = 0
        /\ kpis.totalStates = 0 /\ kpis.orphanStates = 0 /\ kpis.clusters = 0
        /\ kpis.httpActions.count = 0
        /\ IsHundred(kpis.httpActions.integrationHealth)
        /\ kpis.httpActions.diversityOfEndpoints = 0
        /\ IsHundred(kpis.httpActions.securityRate)
        /\ IsZero(kpis.httpActions.reutilizationRate)
        /\ kpis.httpActions.performanceRisk = 0
        /\ kpis.scriptActions.count = 0
        /\ IsZero(kpis.scriptActions.averageRiskScore)
        /\ IsZero(kpis.scriptActions.deadCodeRate)
        /\ IsZero(kpis.scriptActions.couplingRate)
        /\ IsZero(kpis.scriptActions.duplicatedCodeRate)
        /\ IsHundred(kpis.scriptActions.namingConsistency)
        /\ kpis.interactionActions.count = 0
        /\ IsZero(kpis.interactionActions.richnessScore)
        /\ IsHundred(kpis.interactionActions.inputRobustness)
        /\ IsZero(kpis.interactionActions.navigationClarity)
        /\ IsZero(kpis.interactionActions.deadEndsRate)
        /\ IsHundred(kpis.interactionActions.consistencyScore)
        /\ kpis.variableActions.count = 0
        /\ IsZero(kpis.variableActions.orphanRate)
        /\ IsZero(kpis.variableActions.averageLifecycle)
        /\ IsZero(kpis.variableActions.conditionComplexity)
        /\ IsZero(kpis.variableActions.sourceDistribution.input)
        /\ IsZero(kpis.variableActions.sourceDistribution.context)
        /\ IsZero(kpis.variableActions.magicVariablesRate)

\* {"flow": {}}: getEmptyKPIs answers 0 where the metric functions answer 100
C8_Witness ==
    /\ flowData = [flow |-> <<>>]
    /\ Has(kpis, "totalStates")
    /\ kpis = getEmptyKPIs
    /\ IsZero(kpis.httpActions.integrationHealth)
    /\ IsHundred(calculateIntegrationHealth(<<>>))
    /\ IsZero(kpis.httpActions.securityRate)
    /\ IsZero(kpis.scriptActions.namingConsistency)
    /\ IsZero(kpis.interactionActions.inputRobustness)
    /\ IsZero(kpis.interactionActions.consistencyScore)

-----------------------------------------------------------------------------
(* C9: for a flow of at least one state and no SetVariable action the       *)
(* variable group is all zero, in the server's result and in the first      *)
(* KPICalculator's, whatever conditions the outputs carry.                  *)
VariableGroupIsZero(v) ==
    /\ IsZero(v.orphanRate) /\ IsZero(v.averageLifecycle)
    /\ IsZero(v.conditionComplexity) /\ IsZero(v.magicVariablesRate)
    /\ IsZero(v.sourceDistribution.input) /\ IsZero(v.sourceDistribution.context)

C9_NoSetVariableAllZero ==
    /\ (Has(kpis, "totalStates") /\ kpis.totalStates >= 1 /\ kpis.variableActions.count = 0)
          => VariableGroupIsZero(kpis.variableActions)
    /\ (Has(legacyKpis, "variableActions") /\ Len(flowData.states) >= 1
          /\ legacyKpis.variableActions.count = 0)
          => VariableGroupIsZero(legacyKpis.variableActions)

\* {"flow": {"start": {}}}: no SetVariable action, averageLifecycle 4.2
C9_Witness ==
    /\ flowData = [flow |-> <<<<START, EmptyObj>>>>]
    /\ Has(kpis, "totalStates")
    /\ kpis.totalStates = 1
    /\ kpis.variableActions.count = 0
    /\ REq(kpis.variableActions.averageLifecycle, Frac(42, 10))

-----------------------------------------------------------------------------
(* C10: diversityOfEndpoints is the number of distinct non-empty            *)
(* settings.uri over the ProcessHttp actions, and reutilizationRate times   *)
(* diversityOfEndpoints is the number of ProcessHttp actions with a         *)
(* non-empty uri (the rate is 0 when there is none), in the server's result *)
(* and in the first KPICalculator's.                                        *)
HttpWithUri(states) ==
    SelectSeq(Flatten([i \in 1..Len(states) |-> RawActions(states[i])]),
              LAMBDA a : /\ Has(a, "type") /\ a.type = PROCESS_HTTP
                         /\ Has(a, "settings") /\ Has(a.settings, "uri")
                         /\ a.settings.uri # <<>>)

EndpointsDeduplicated(h, states) ==
    LET calls_ == HttpWithUri(states)
    IN  /\ h.diversityOfEndpoints = Cardinality({a.settings.uri : a \in Range(calls_)})
        /\ h.reutilizationRate.n * h.diversityOfEndpoints = Len(calls_) * h.reutilizationRate.d
        /\ (Len(calls_) = 0 => IsZero(h.reutilizationRate))

C10_EndpointsDeduplicated ==
    /\ Has(kpis, "httpActions") => EndpointsDeduplicated(kpis.httpActions, serverStates(flowData))
    /\ Has(legacyKpis, "httpActions") =>
           EndpointsDeduplicated(legacyKpis.httpActions, flowData.states)

\* two ProcessHttp actions with the same uri: diversity 1, rate 2
C10_Witness ==
    /\ Has(kpis, "httpActions")
    /\ Len(HttpWithUri(serverStates(flowData))) = 2
    /\ kpis.httpActions.count = 2
    /\ kpis.httpActions.diversityOfEndpoints = 1
    /\ REq(kpis.httpActions.reutilizationRate, RInt(2))

-----------------------------------------------------------------------------
(* C11: a 60-line script without input variables and output variable *)

\* every action of the document, in state order, as the analyzer lists them
DocActions(fd) ==
    LET states == normalizeFlowData(fd)
    IN  Flatten([i \in 1..Len(states) |-> RawActions(states[i])])

DocActionsOfType(fd, type) == SelectSeq(DocActions(fd), LAMBDA a : a.type = type)

FalsyField(o, k) == ~Has(o, k) \/ o[k] = <<>>

IsBareSixtyLineScript(a) ==
    /\ Has(a, "settings") /\ Has(a.settings, "source")
    /\ Cardinality({i \in 1..Len(a.settings.source) : a.settings.source[i] = "\n"}) = 59
    /\ FalsyField(a, "inputVariables")
    /\ FalsyField(a, "outputVariable")

OnlyScriptIsBareSixtyLine(fd) ==
    /\ Len(DocActionsOfType(fd, EXECUTE_SCRIPT)) = 1
    /\ IsBareSixtyLineScript(DocActionsOfType(fd, EXECUTE_SCRIPT)[1])

FindingsOfType(analysis, type) == SelectSeq(analysis.riskFactors, LAMBDA r : r.type = type)

\* the claim for a given score: the server's averageRiskScore of a flow-map document
\* whose only script is the bare 60-line one is `score`, and the analyzer reports
\* that script as one high_risk_script finding of severity high
SixtyLineScriptScores(score) ==
    OnlyScriptIsBareSixtyLine(flowData) =>
        /\ (Has(flowData, "flow") /\ Has(kpis, "scriptActions"))
              => REq(kpis.scriptActions.averageRiskScore, RInt(score))
        /\ Has(metrics, "riskFactors")
              => /\ Len(FindingsOfType(metrics, "high_risk_script")) = 1
                 /\ FindingsOfType(metrics, "high_risk_script")[1].severity = "high"

\* C11 as stated: a flow whose only script has a 60-line source, no inputVariables
\* and no outputVariable has averageRiskScore = 10 (the cap), and the analyzer
\* reports the script as a high_risk_script finding of severity high.
C11_SixtyLineScriptScoresTen == SixtyLineScriptScores(10)

\* C11 amended: the same flow has averageRiskScore = 9 (2 + 3 + 2 + 2, below the
\* cap), and the analyzer reports the script as a high_risk_script finding of
\* severity high.
C11_SixtyLineScriptScoresNine == SixtyLineScriptScores(9)

C11_Witness ==
    /\ flowData = [flow |-> <<<<START, ("$contentActions" :>
            <<WithSettings(Action(EXECUTE_SCRIPT), [source |-> SourceLines(60)])>>)>>>>]
    /\ Has(kpis, "scriptActions")
    /\ kpis.scriptActions.count = 1
    /\ REq(kpis.scriptActions.averageRiskScore, RInt(9))
    /\ Has(metrics, "riskFactors")
    /\ metrics.riskFactors = <<[type |-> "high_risk_script", severity |-> "high",
                                location |-> START]>>
                              \o FindingsOfType(metrics, "dead_code")
    /\ FindingsOfType(metrics, "dead_code") = <<>>

-----------------------------------------------------------------------------
(* C12: one high_risk_script finding per ExecuteScript action, and its severity *)

\* the lines of a script as the claim counts them: a missing or empty source is 1 line
SourceLineCount(a) ==
    IF Has(a, "settings") /\ Has(a.settings, "source")
    THEN 1 + Cardinality({i \in 1..Len(a.settings.source) : a.settings.source[i] = "\n"})
    ELSE 1

ClaimedSeverity(a) ==
    IF \/ SourceLineCount(a) > 50
       \/ FalsyField(a, "inputVariables")
       \/ FalsyField(a, "outputVariable")
    THEN "high"
    ELSE IF SourceLineCount(a) > 20 THEN "medium"
    ELSE "low"

\* C12: the analyzer's high_risk_script findings are, in order, one per
\* ExecuteScript action of the document, each of severity high iff the source has
\* more than 50 lines or there is no input variable or no output variable, medium
\* iff none of those and more than 20 lines, low otherwise; a missing or empty
\* source counts as 1 line.
C12_OneFindingPerScript ==
    Has(metrics, "riskFactors") =>
        LET scripts == DocActionsOfType(flowData, EXECUTE_SCRIPT)
            findings == FindingsOfType(metrics, "high_risk_script")
        IN  /\ Len(findings) = Len(scripts)
            /\ \A i \in 1..Len(scripts) : findings[i].severity = ClaimedSeverity(scripts[i])

\* a 21-line script with an input and an output: medium
C12_Witness ==
    /\ Has(metrics, "riskFactors")
    /\ Len(DocActionsOfType(flowData, EXECUTE_SCRIPT)) = 1
    /\ SourceLineCount(DocActionsOfType(flowData, EXECUTE_SCRIPT)[1]) = 21
    /\ FindingsOfType(metrics, "high_risk_script")
         = <<[type |-> "high_risk_script", severity |-> "medium", location |-> START]>>

-----------------------------------------------------------------------------
(* C13: security_risk findings and the Authorization header *)

UpperLetters == <<"A","B","C","D","E","F","G","H","I","J","K","L","M",
                  "N","O","P","Q","R","S","T","U","V","W","X","Y","Z">>

LowerLetters == <<"a","b","c","d","e","f","g","h","i","j","k","l","m",
                  "n","o","p","q","r","s","t","u","v","w","x","y","z">>

ToLowerCase(str) ==
    [i \in 1..Len(str) |->
        IF \E j \in 1..26 : UpperLetters[j] = str[i]
        THEN LowerLetters[CHOOSE j \in 1..26 : UpperLetters[j] = str[i]]
        ELSE str[i]]

\* settings.headers has a key equal to `Authorization`, letter case ignored
HasAuthorizationKey(a) ==
    /\ Has(a, "settings") /\ Has(a.settings, "headers")
    /\ \E k \in DOMAIN a.settings.headers :
          ToLowerCase(KeyChars(k)) = ToLowerCase(KeyChars("Authorization"))

\* C13: the security_risk findings are one, of severity medium, per ProcessHttp
\* action whose settings.headers has no key equal to `Authorization` under
\* case-insensitive comparison, and none for an action that has such a key in any
\* letter case.
C13_FindingIffNoAuthorizationKey ==
    Has(metrics, "riskFactors") =>
        LET unauthenticated == SelectSeq(DocActionsOfType(flowData, PROCESS_HTTP),
                                         LAMBDA a : ~HasAuthorizationKey(a))
            findings == FindingsOfType(metrics, "security_risk")
        IN  /\ Len(findings) = Len(unauthenticated)
            /\ \A i \in 1..Len(findings) : findings[i].severity = "medium"

\* headers = {"AUTHORIZATION": "Bearer x"}: the finding is reported all the same,
\* and the server's securityRate is 0
C13_Witness ==
    /\ flowData = [flow |-> <<<<START, ("$contentActions" :>
            <<WithSettings(Action(PROCESS_HTTP),
                           [headers |-> [AUTHORIZATION |-> BEARER]])>>)>>>>]
    /\ Has(metrics, "riskFactors")
    /\ Len(FindingsOfType(metrics, "security_risk")) = 1
    /\ Has(kpis, "httpActions")
    /\ REq(kpis.httpActions.securityRate, RInt(0))

-----------------------------------------------------------------------------
(* C14: dynamicContentRate *)

HasBothMarkers(o, k) ==
    /\ Has(o, k)
    /\ \E i \in 1..(Len(o[k]) - 1) : o[k][i] = "{" /\ o[k][i + 1] = "{"
    /\ \E i \in 1..(Len(o[k]) - 1) : o[k][i] = "}" /\ o[k][i + 1] = "}"

\* settings.content or settings.rawContent contains both markers
IsTemplated(a) ==
    Has(a, "settings")
    /\ (HasBothMarkers(a.settings, "content") \/ HasBothMarkers(a.settings, "rawContent"))

ClaimedDynamicContentRate(fd) ==
    LET messages == DocActionsOfType(fd, SEND_MESSAGE)
    IN  IF Len(messages) = 0 THEN RInt(0)
        ELSE Frac(100 * Len(SelectSeq(messages, IsTemplated)), Len(messages))

\* C14: dynamicContentRate is 100 times the number of SendMessage actions whose
\* settings.content or settings.rawContent contains both markers, over the number
\* of SendMessage actions, and 0 when there is none; a message counts when either
\* field contains both markers, whatever the other field holds.
C14_DynamicContentRate ==
    /\ (Has(flowData, "flow") /\ Has(kpis, "dynamicContentRate"))
          => REq(kpis.dynamicContentRate, ClaimedDynamicContentRate(flowData))
    /\ Has(clientKpis, "dynamicContentRate")
          => REq(clientKpis.dynamicContentRate, ClaimedDynamicContentRate(flowData))

\* content "Hello", rawContent "Hello {{name}}": the rate is 0
C14_Witness ==
    /\ flowData = [flow |-> <<<<START, ("$contentActions" :>
            <<WithSettings(Action(SEND_MESSAGE),
                [content |-> HELLO,
                 rawContent |-> HELLO \o <<" ">> \o OPEN_BRACES \o NAME \o CLOSE_BRACES])>>)>>>>]
    /\ Has(kpis, "dynamicContentRate")
    /\ REq(kpis.dynamicContentRate, RInt(0))
    /\ Has(clientKpis, "dynamicContentRate")
    /\ REq(clientKpis.dynamicContentRate, RInt(0))

-----------------------------------------------------------------------------
(* C15: orphanRate *)

\* the name a SetVariable action defines: outputVariable, else settings.variable
DefinedName(a) ==
    IF ~FalsyField(a, "outputVariable") THEN a.outputVariable
    ELSE IF Has(a, "settings") /\ Has(a.settings, "variable") THEN a.settings.variable
    ELSE <<>>

\* the i-th of `actions` has no name, or no other action's serialized form holds its name
IsClaimedOrphan(actions, i) ==
    \/ DefinedName(actions[i]) = <<>>
    \/ \A j \in 1..Len(actions) :
          j # i => ~Includes(stringify(actions[j], "object"), DefinedName(actions[i]))

ClaimedOrphanRate(actions) ==
    LET setters == {i \in 1..Len(actions) : actions[i].type = SET_VARIABLE}
    IN  IF setters = {} THEN RInt(0)
        ELSE Frac(100 * Cardinality({i \in setters : IsClaimedOrphan(actions, i)}),
                  Cardinality(setters))

\* C15: orphanRate counts a SetVariable action iff it has no variable name or its
\* name (outputVariable, else settings.variable) occurs in the serialized form of
\* no other action of the flow.
C15_OrphanRate ==
    /\ (Has(flowData, "flow") /\ Has(kpis, "variableActions") /\ kpis.totalStates > 0)
          => REq(kpis.variableActions.orphanRate,
                 ClaimedOrphanRate(getAllActions(serverStates(flowData))))
    /\ Has(legacyKpis, "variableActions")
          => REq(legacyKpis.variableActions.orphanRate,
                 ClaimedOrphanRate(Kpi1_getAllActions(flowData.states)))

\* one SetVariable action defining `result`, and no other action: orphanRate is 0
C15_Witness ==
    /\ flowData = [flow |-> <<<<START, ("$contentActions" :>
            <<WithSettings(Action(SET_VARIABLE), [variable |-> RESULT, value |-> A])>>)>>>>]
    /\ Has(kpis, "variableActions")
    /\ kpis.variableActions.count = 1
    /\ REq(kpis.variableActions.orphanRate, RInt(0))

-----------------------------------------------------------------------------
(* C16: the root rule of the flow-map shape *)

\* the id equals `onboarding`, or contains `inicio`, or contains `start`
MatchesRootRule(id) ==
    \/ id = <<"o","n","b","o","a","r","d","i","n","g">>
    \/ \E i \in 1..(Len(id) - 5) : SubSeq(id, i, i + 5) = <<"i","n","i","c","i","o">>
    \/ \E i \in 1..(Len(id) - 4) : SubSeq(id, i, i + 4) = <<"s","t","a","r","t">>

IsTrue(o, k) == Has(o, k) /\ o[k] = TRUE

\* C16: in the flow-map shape the analyzer and the server mark a state as root iff
\* its key in `flow` equals `onboarding` or contains `inicio` or `start`
\* (case-sensitive), whatever the state itself holds; the analyzer's rootStates are
\* exactly those states.
C16_RootIffIdMatches ==
    Has(flowData, "flow") =>
        /\ \A i \in 1..Len(flowData.flow) :
              /\ IsTrue(normalizedStates[i], "is_root") <=> MatchesRootRule(flowData.flow[i][1])
              /\ IsTrue(serverStates(flowData)[i], "is_root")
                    <=> MatchesRootRule(flowData.flow[i][1])
        /\ Has(metrics, "rootStates")
              => metrics.rootStates
                   = SelectSeq(normalizedStates,
                               LAMBDA st : \E i \in 1..Len(flowData.flow) :
                                   /\ normalizedStates[i] = st
                                   /\ MatchesRootRule(flowData.flow[i][1]))

\* key `a` with is_root: true in the state is no root; key `restart` with
\* is_root: false is one
C16_Witness ==
    /\ Has(flowData, "flow") /\ Len(flowData.flow) = 1
    /\ Has(metrics, "rootStates")
    /\ \/ /\ flowData.flow[1] = <<A, [is_root |-> TRUE]>>
          /\ metrics.rootStates = <<>>
       \/ /\ flowData.flow[1] = <<<<"r","e">> \o START, [is_root |-> FALSE]>>
          /\ Len(metrics.rootStates) = 1

-----------------------------------------------------------------------------
(* C17: shape detection *)

\* the canonical sequence the claim describes: one state per key of `flow`; else
\* the `states` array as it is; else empty
ClaimedStateCount(fd) ==
    IF "flow" \in DOMAIN fd THEN Len(fd.flow)
    ELSE IF "states" \in DOMAIN fd THEN Len(fd.states)
    ELSE 0

-----------------------------------------------------------------------------
(* C18: calculateKPIs on every document the schema accepts *)

\* what a KPIResult has
IsKPIResult(result) ==
    {"healthScore", "complexityIndex", "totalStates", "orphanStates", "clusters",
     "httpActions", "scriptActions", "interactionActions", "variableActions"}
        \subseteq DOMAIN result

\* C18: for every document FlowDataSchema accepts, calculateKPIs completes and
\* returns a KPIResult.
C18_NeverThrows ==
    (SchemaAccepts(flowData) /\ kpis # NotCalled) => IsKPIResult(kpis)

\* {"flow": {"start": null}} passes the schema and calculateKPIs throws a TypeError
C18_Witness ==
    /\ flowData = NullFlow
    /\ SchemaAccepts(flowData)
    /\ kpis = TypeError

-----------------------------------------------------------------------------
(* C19: branchingFactor *)

\* the outputs of every state, plus 1 for each state that has a default output
ClaimedConnections(states) ==
    SumSeq([i \in 1..Len(states) |->
        (IF "outputs" \in DOMAIN states[i] THEN Len(states[i].outputs) ELSE 0)
        + (IF "defaultOutput" \in DOMAIN states[i] THEN 1 ELSE 0)])

\* C19: for a flow of N >= 1 states, branchingFactor times N is the number of
\* outputs of all states plus 1 for each state that has a default output.
C19_BranchingFactor ==
    LET states == normalizeFlowData(flowData)
    IN  /\ (Has(flowData, "flow") /\ Has(kpis, "branchingFactor") /\ Len(states) >= 1)
              => REq(kpis.branchingFactor, Frac(ClaimedConnections(states), Len(states)))
        /\ (Has(legacyKpis, "branchingFactor") /\ Len(states) >= 1)
              => REq(legacyKpis.branchingFactor, Frac(ClaimedConnections(states), Len(states)))

\* {"flow": {"start": {"$defaultOutput": {"stateId": "a"}}, "a": {}}}: the server's
\* branchingFactor is 0, not 1/2
C19_Witness ==
    /\ flowData = [flow |-> <<<<START, ("$defaultOutput" :> [stateId |-> A])>>,
                              <<A, EmptyObj>>>>]
    /\ ClaimedConnections(normalizeFlowData(flowData)) = 1
    /\ Has(kpis, "branchingFactor")
    /\ REq(kpis.branchingFactor, RInt(0))

-----------------------------------------------------------------------------
(* C20: flowCohesion and clusters *)

ClaimedClusters(n) ==
    LET eighths == n \div 8
        capped == IF eighths < 10 THEN eighths ELSE 10
    IN  IF capped > 1 THEN capped ELSE 1

\* C20: for a flow of N >= 1 states, flowCohesion equals `clusters`, and both equal
\* max(1, min(10, floor(N/8))).
C20_CohesionIsClusters ==
    (Has(kpis, "flowCohesion") /\ kpis.totalStates >= 1) =>
        /\ kpis.flowCohesion = kpis.clusters
        /\ kpis.clusters = ClaimedClusters(kpis.totalStates)

\* 8 states: flowCohesion is 2 and clusters is 1
C20_Witness ==
    /\ Has(kpis, "flowCohesion")
    /\ kpis.totalStates = 8
    /\ kpis.flowCohesion = 2
    /\ kpis.clusters = 1

-----------------------------------------------------------------------------
(* C21: dead_code findings, deadCodePotential and orphanStates *)

DeadCodeAt(analysis, id) ==
    SelectSeq(FindingsOfType(analysis, "dead_code"), LAMBDA r : r.location = id)

\* the analyzer's half: one low-severity dead_code finding per orphan state, at the
\* state's id, and none for a reachable state
DeadCodePerOrphan(analysis, states) ==
    /\ \A s \in Range(states) :
          IF s["$id"] \in ReachableIds(states)
          THEN DeadCodeAt(analysis, s["$id"]) = <<>>
          ELSE /\ Len(DeadCodeAt(analysis, s["$id"])) = 1
               /\ DeadCodeAt(analysis, s["$id"])[1].severity = "low"
    /\ Len(FindingsOfType(analysis, "dead_code")) = UnreachableCount(states)

\* C21: the analyzer reports exactly one dead_code finding of severity low per
\* orphan state, located at that state's id, and none for a reachable state; the
\* number of dead_code findings, the KPI deadCodePotential and the KPI
\* orphanStates all equal the number of orphan states.
C21_DeadCodeCounts ==
    LET states == normalizeFlowData(flowData)
    IN  /\ Has(metrics, "riskFactors") => DeadCodePerOrphan(metrics, states)
        /\ (Has(flowData, "flow") /\ Has(kpis, "orphanStates")) =>
              /\ kpis.deadCodePotential = UnreachableCount(states)
              /\ kpis.orphanStates = UnreachableCount(states)

\* {"flow": {"start": {"$defaultOutput": {"stateId": "a"}}, "a": {}}}: no orphan
\* state and no dead_code finding, and the server's two counts are 1
C21_Witness ==
    /\ flowData = [flow |-> <<<<START, ("$defaultOutput" :> [stateId |-> A])>>,
                              <<A, EmptyObj>>>>]
    /\ Has(metrics, "riskFactors")
    /\ UnreachableCount(normalizeFlowData(flowData)) = 0
    /\ FindingsOfType(metrics, "dead_code") = <<>>
    /\ Has(kpis, "orphanStates")
    /\ kpis.deadCodePotential = 1
    /\ kpis.orphanStates = 1

-----------------------------------------------------------------------------
(* C24: action categorization leaves the states and their actions as they were *)

\* the actions of all states with the id of the state that owns each: state order,
\* and entering, content, leaving inside a state
OwnedActions(states) ==
    Flatten([i \in 1..Len(states) |->
        LET lists == (IF "enteringCustomActions" \in DOMAIN states[i]
                      THEN states[i].enteringCustomActions ELSE <<>>)
                     \o (IF "actions" \in DOMAIN states[i] THEN states[i].actions ELSE <<>>)
                     \o (IF "leavingCustomActions" \in DOMAIN states[i]
                         THEN states[i].leavingCustomActions ELSE <<>>)
        IN  [j \in 1..Len(lists) |-> [owner |-> states[i]["$id"], action |-> lists[j]]]])

\* copy is the source action with stateId set to the owner's id and nothing else changed
IsTaggedCopy(copy, owned) ==
    /\ DOMAIN copy = DOMAIN owned.action \cup {"stateId"}
    /\ copy.stateId = owned.owner
    /\ \A k \in DOMAIN owned.action \ {"stateId"} : copy[k] = owned.action[k]

CopiesMatchSources(actionsByType, states) ==
    LET owned == OwnedActions(states)
    IN  /\ DOMAIN actionsByType = {owned[i].action.type : i \in 1..Len(owned)}
        /\ \A t \in DOMAIN actionsByType :
              LET ofType == SelectSeq(owned, LAMBDA x : x.action.type = t)
              IN  /\ Len(actionsByType[t]) = Len(ofType)
                  /\ \A i \in 1..Len(ofType) : IsTaggedCopy(actionsByType[t][i], ofType[i])

\* C24: analyze() and calculateKPIs leave the document and the states, with every
\* source action, as they were; the categorized copies are, type by type, the
\* actions of all states in state order and in entering, content, leaving order
\* inside a state, each a copy of its source action tagged with the id of the
\* state that owns it.
C24_CategorizationKeepsInput ==
    /\ [][flowData' = flowData /\ normalizedStates' = normalizedStates]_vars
    /\ [](Has(metrics, "actionsByType") =>
            /\ normalizedStates = normalizeFlowData(flowData)
            /\ CopiesMatchSources(metrics.actionsByType, normalizedStates))

\* `start` with an entering message, an input and a message as content and a
\* leaving message that carries a stateId of its own; `a` with a message
C24_Witness ==
    /\ Has(metrics, "actionsByType")
    /\ Has(kpis, "totalStates")
    /\ Has(flowData, "flow")
    /\ Len(normalizedStates) = 2
    /\ normalizedStates[1].enteringCustomActions = <<Titled(SEND_MESSAGE, A)>>
    /\ normalizedStates[1].actions = <<Titled(INPUT, B), Titled(SEND_MESSAGE, C)>>
    /\ normalizedStates[1].leavingCustomActions
          = <<Titled(SEND_MESSAGE, D) @@ [stateId |-> GHOST]>>
    /\ [i \in 1..5 |-> metrics.actionsByType[SEND_MESSAGE][i]["$title"]] = <<A, C, D, B, A>>
    /\ [i \in 1..5 |-> metrics.actionsByType[SEND_MESSAGE][i].stateId]
          = <<START, START, START, A, A>>

-----------------------------------------------------------------------------
(* C25: the connection map *)

\* the target ids of a state: those of its outputs in array order, then that of its
\* default output
ClaimedTargets(state) ==
    LET outs == IF "outputs" \in DOMAIN state THEN state.outputs ELSE <<>>
        withTarget == SelectSeq(outs, LAMBDA o : "stateId" \in DOMAIN o)
    IN  [i \in 1..Len(withTarget) |-> withTarget[i].stateId]
        \o (IF "defaultOutput" \in DOMAIN state /\ "stateId" \in DOMAIN state.defaultOutput
            THEN <<state.defaultOutput.stateId>> ELSE <<>>)

\* C25: the connection map has one entry per state id; the entry of a state is the
\* sequence of the target ids of its outputs in array order, followed by the target
\* of its defaultOutput when one is present; a state with no outputs and no default
\* output maps to the empty sequence, and targets that name no existing state are
\* kept.
C25_ConnectionMap ==
    Has(metrics, "stateConnections") =>
        LET states == normalizeFlowData(flowData)
        IN  /\ DOMAIN metrics.stateConnections = {s["$id"] : s \in Range(states)}
            /\ \A s \in Range(states) :
                  metrics.stateConnections[s["$id"]] = ClaimedTargets(s)

\* `start` with outputs to a missing state and to `a` and a default output to a
\* missing state; `a` with no edge
C25_Witness ==
    /\ Has(metrics, "stateConnections")
    /\ Has(flowData, "flow")
    /\ metrics.stateConnections = (START :> <<GHOST, A, GHOST>>) @@ (A :> <<>>)

-----------------------------------------------------------------------------
(* C26: navigationClarity and deadEndsRate *)

FixedInteractionConstants(group) ==
    IF group.count > 0
    THEN /\ REq(group.navigationClarity, Frac(32, 10))
         /\ REq(group.deadEndsRate, RInt(12))
    ELSE /\ REq(group.navigationClarity, RInt(0))
         /\ REq(group.deadEndsRate, RInt(0))

\* C26: for every flow with at least one SendMessage or Input action
\* navigationClarity = 3.2 and deadEndsRate = 12, whatever the actions hold; with
\* no such action both are 0.
C26_FixedConstants ==
    /\ Has(kpis, "interactionActions") => FixedInteractionConstants(kpis.interactionActions)
    /\ Has(legacyKpis, "interactionActions")
          => FixedInteractionConstants(legacyKpis.interactionActions)

\* one SendMessage that is not a select menu and no Input: the server's
\* navigationClarity and deadEndsRate are 0
C26_Witness ==
    /\ Has(flowData, "flow")
    /\ Len(DocActions(flowData)) = 1
    /\ DocActions(flowData)[1] = WithSettings(Action(SEND_MESSAGE), [content |-> <<"H","i">>])
                                   @@ ("$title" :> <<"H","i">>)
    /\ Has(kpis, "interactionActions")
    /\ kpis.interactionActions.count = 1
    /\ REq(kpis.interactionActions.navigationClarity, RInt(0))
    /\ REq(kpis.interactionActions.deadEndsRate, RInt(0))

-----------------------------------------------------------------------------
(* C27: the analyzer's HTTP findings against the HTTP KPI group *)

\* count * (1 - securityRate / 100), the HTTP actions securityRate does not count
\* as secure, equals n
InsecureCountIs(group, n) ==
    100 * n * group.securityRate.d
        = group.count * (100 * group.securityRate.d - group.securityRate.n)

FindingsAgreeWith(analysis, group) ==
    /\ Len(FindingsOfType(analysis, "performance_risk")) = group.performanceRisk
    /\ InsecureCountIs(group, Len(FindingsOfType(analysis, "security_risk")))

\* C27: on every flow the number of performance_risk findings of the analyzer equals
\* httpActions.performanceRisk, and the number of security_risk findings equals the
\* number of ProcessHttp actions that securityRate does not count as secure; for the
\* server's group on the flow-map documents its route hands to calculateKPIs, for the
\* KPICalculator's group on the flat-array documents it reads.
C27_FindingsAgreeWithHttpGroup ==
    Has(metrics, "riskFactors") =>
        /\ (Has(flowData, "flow") /\ Has(kpis, "httpActions"))
              => FindingsAgreeWith(metrics, kpis.httpActions)
        /\ Has(legacyKpis, "httpActions") => FindingsAgreeWith(metrics, legacyKpis.httpActions)

\* two HTTP actions, one asynchronous with an authorization header and one blocking
\* without headers: one finding of each kind, performanceRisk 1, securityRate 50
C27_Witness ==
    /\ Has(flowData, "flow")
    /\ Has(metrics, "riskFactors")
    /\ Has(kpis, "httpActions")
    /\ kpis.httpActions.count = 2
    /\ kpis.httpActions.performanceRisk = 1
    /\ REq(kpis.httpActions.securityRate, RInt(50))
    /\ Len(FindingsOfType(metrics, "performance_risk")) = 1
    /\ Len(FindingsOfType(metrics, "security_risk")) = 1

-----------------------------------------------------------------------------
(* C28: canonical ids are the keys of the flow map *)

\* what the claim derives from the key and the `$`-prefixed fields of the raw state
DerivedFromKey(state, key, raw) ==
    /\ state["$id"] = key
    /\ state.is_root = MatchesRootRule(key)
    /\ state.actions
          = (IF "$contentActions" \in DOMAIN raw THEN raw["$contentActions"] ELSE <<>>)
    /\ state.outputs
          = (IF "$conditionOutputs" \in DOMAIN raw THEN raw["$conditionOutputs"] ELSE <<>>)

CanonicalFromKeys(states, flow) ==
    /\ Len(states) = Len(flow)
    /\ \A i \in 1..Len(flow) : DerivedFromKey(states[i], flow[i][1], flow[i][2])
    /\ \A i, j \in 1..Len(states) : i # j => states[i]["$id"] # states[j]["$id"]

\* C28: in flow-map normalization every canonical state's id equals the key it was
\* built from, so the ids are pairwise distinct and totalStates is the number of
\* keys, whatever fields the state description carries ($id, is_root, actions or
\* outputs of its own); is_root, actions and outputs are determined by the key and
\* the `$`-prefixed fields only.  For the analyzer's and for the server's states.
C28_IdsAreKeys ==
    (Has(flowData, "flow") /\ ~serverStatesThrows(flowData)) =>
        /\ CanonicalFromKeys(normalizedStates, flowData.flow)
        /\ Has(metrics, "totalStates") => metrics.totalStates = Len(flowData.flow)
        /\ Has(kpis, "totalStates") =>
              /\ kpis.totalStates = Len(flowData.flow)
              /\ CanonicalFromKeys(serverStates(flowData), flowData.flow)

\* `start` with an output to `a`, and `a` carrying the $id " ": the server's second
\* state has the id " ", so `a` is not found and the state counts as an orphan,
\* while the analyzer's state keeps the id `a` and is reachable
C28_Witness ==
    /\ flowData = [flow |-> <<<<START, ("$conditionOutputs" :>
                                <<[stateId |-> A, conditions |-> <<Condition(SRC_INPUT, A)>>]>>)>>,
                              <<A, ("$id" :> BLANK) @@ ("$tags" :> <<>>)>>>>]
    /\ Has(kpis, "totalStates")
    /\ kpis.totalStates = 2
    /\ serverStates(flowData)[2]["$id"] = BLANK
    /\ kpis.orphanStates = 1
    /\ normalizedStates[2]["$id"] = A
    /\ analyzerOrphanStates(normalizedStates) = <<>>

-----------------------------------------------------------------------------
(* C22: uploads rejected before the engine *)

\* no file, content that is not JSON, or JSON without a `flow` record
FailsValidation(content) ==
    \/ content = [file |-> FALSE]
    \/ content = [parseError |-> TRUE]
    \/ "flow" \notin DOMAIN content

\* C22: the handling of an upload that carries no file, whose content is not valid
\* JSON, or whose JSON fails schema validation answers 400 in one step, in which
\* the KPI engine is not invoked and the store is left as it was: no record is
\* created and no id is consumed.
C22_RejectedBeforeEngine ==
    [][\A r \in DOMAIN requests :
          (/\ requests[r].pc = "received"
           /\ requests'[r].pc # "received"
           /\ FailsValidation(requests[r].content))
          => /\ requests'[r].pc = "responded"
             /\ requests'[r].response.status = 400
             /\ response' = requests'[r].response
             /\ kpis' = kpis /\ calls' = calls
             /\ analyses' = analyses /\ currentId' = currentId /\ storeLog' = storeLog]_vars

\* a flat-array document answered with 400 after another request has stored record
\* 1: the store still holds that record alone and the next id is 2
C22_Witness ==
    /\ \E r \in DOMAIN requests :
          /\ Has(requests[r].content, "states")
          /\ requests[r].response = Message(400, "Invalid flow structure")
          /\ response = requests[r].response
    /\ DOMAIN analyses = {1}
    /\ currentId = 2
    /\ Len(calls) = 1

-----------------------------------------------------------------------------
(* C23: concurrent uploads are independent *)

\* the requests whose handler has gone through storage.createFlowAnalysis
StoredRequests == {r \in DOMAIN requests : requests[r].analysis # NotCalled}

\* C23: under every interleaving of the upload requests, each accepted request
\* stores exactly one record, the records have pairwise distinct ids, the kpis of a
\* record are those computed from that request's own document alone, and the
\* request is answered with its own record.
C23_UploadsIndependent ==
    /\ \A r \in StoredRequests :
          /\ requests[r].analysis.id \in DOMAIN analyses
          /\ analyses[requests[r].analysis.id] = requests[r].analysis
          /\ requests[r].analysis.originalJson = requests[r].content
          /\ requests[r].analysis.kpis = calculateKPIs(requests[r].content)
          /\ requests[r].pc = "responded" => requests[r].response.body = requests[r].analysis
    /\ \A r, s \in StoredRequests : r # s => requests[r].analysis.id # requests[s].analysis.id
    /\ Cardinality(DOMAIN analyses) = Cardinality(StoredRequests)
    /\ \A r \in DOMAIN requests :
          (requests[r].pc # "received" /\ requests[r].analysis = NotCalled)
              => requests[r].response.status \in {400, 500}

\* two uploads of different documents, both stored before either is answered, the
\* second answered first
C23_Witness ==
    /\ StoredRequests = {1, 2}
    /\ requests[1].content # requests[2].content
    /\ requests[1].pc = "awaiting"
    /\ requests[2].pc = "responded"
    /\ requests[1].analysis.id = 1
    /\ requests[2].analysis.id = 2
    /\ requests[1].analysis.kpis # requests[2].analysis.kpis
    /\ response.body = requests[2].analysis

-----------------------------------------------------------------------------
(* C29: the ids MemStorage hands out *)

Creates(log) == SelectSeq(log, LAMBDA e : e.op = "create")

\* C29: after any sequence of createFlowAnalysis and deleteFlowAnalysis calls, the
\* ids handed out are 1, 2, 3, ... in creation order, strictly increasing and
\* pairwise distinct, and an id is never handed out again after the record that
\* held it was deleted.
C29_IdsNeverReused ==
    /\ \A i \in 1..Len(Creates(storeLog)) : Creates(storeLog)[i].returned.id = i
    /\ \A i, j \in 1..Len(storeLog) :
          (i < j /\ storeLog[i].op = "create" /\ storeLog[j].op = "create")
              => storeLog[i].returned.id < storeLog[j].returned.id
    /\ \A i, j \in 1..Len(storeLog) :
          (i < j /\ storeLog[i].op = "delete" /\ storeLog[i].returned = TRUE
                 /\ storeLog[j].op = "create")
              => storeLog[j].returned.id # storeLog[i].id

\* create, delete(1), create: the second record gets the id 2 and is alone in the Map
C29_Witness ==
    /\ Len(storeLog) = 3
    /\ storeLog[1].op = "create" /\ storeLog[1].returned.id = 1
    /\ storeLog[2] = [op |-> "delete", id |-> 1, returned |-> TRUE]
    /\ storeLog[3].op = "create" /\ storeLog[3].returned.id = 2
    /\ DOMAIN analyses = {2}

-----------------------------------------------------------------------------
(* C30: what MemStorage holds and returns *)

\* the ids created and not deleted since, after the first n calls of the log
LiveIds(log, n) ==
    {log[i].id : i \in {x \in 1..n :
        /\ log[x].op = "create"
        /\ \A y \in (x + 1)..n : ~(log[y].op = "delete" /\ log[y].id = log[x].id)}}

\* the record created with the id
CreatedRecord(log, id) ==
    log[CHOOSE i \in 1..Len(log) : log[i].op = "create" /\ log[i].id = id].returned

LiveRecords(log, n) == {CreatedRecord(log, id) : id \in LiveIds(log, n)}

\* C30: after any sequence of calls the Map holds exactly the records created and
\* not deleted since; getFlowAnalysis(id) returns the record iff there is one for
\* that id, getAllFlowAnalyses returns exactly those records once each,
\* deleteFlowAnalysis(id) returns true iff the id was present and removes that
\* record only, and when it returns false the route answers 404.
C30_StoreHoldsLiveRecords ==
    /\ DOMAIN analyses = LiveIds(storeLog, Len(storeLog))
    /\ \A id \in DOMAIN analyses : analyses[id] = CreatedRecord(storeLog, id)
    /\ \A i \in 1..Len(storeLog) :
          LET e == storeLog[i]
              live == LiveIds(storeLog, i - 1)
          IN  /\ e.op = "get" =>
                    e.returned = (IF e.id \in live THEN CreatedRecord(storeLog, e.id)
                                  ELSE [isUndefined |-> TRUE])
              /\ e.op = "getAll" =>
                    /\ Len(e.returned) = Cardinality(live)
                    /\ Range(e.returned) = LiveRecords(storeLog, i - 1)
              /\ e.op = "delete" => e.returned = (e.id \in live)
    /\ (storeLog # <<>> /\ storeLog[Len(storeLog)].op = "delete") =>
          response.status = (IF storeLog[Len(storeLog)].returned THEN 200 ELSE 404)

\* create, create, delete(1), delete(1): the second delete returns false, the route
\* answers 404, and record 2 is still there
C30_Witness ==
    /\ Len(storeLog) = 4
    /\ storeLog[1].op = "create" /\ storeLog[2].op = "create"
    /\ storeLog[3] = [op |-> "delete", id |-> 1, returned |-> TRUE]
    /\ storeLog[4] = [op |-> "delete", id |-> 1, returned |-> FALSE]
    /\ response = Message(404, "Flow analysis not found")
    /\ DOMAIN analyses = {2}

====
